---- MODULE Spec2Model ----
(***************************************************************************)
(* TamperApi: the background script's TamperStore, header transforms,      *)
(* transport codec and the three webRequest listeners, as a state machine. *)
(*                                                                         *)
(* Strings are sequences of character codes, so that toLowerCase, string   *)
(* concatenation, JSON.stringify, UTF-8 and base64 are computed and not    *)
(* assumed.  A JS property that may be undefined is a sequence of length   *)
(* at most one: <<>> is undefined, <<v>> is the value v.                   *)
(***************************************************************************)
EXTENDS Integers, Sequences, FiniteSets, TLC

(* ------------------------------ bounds --------------------------------- *)

\* number of requests the host issues (request ids 1..MaxReq)
MaxReq == 2
\* longest header list and largest toSet object given to setHeaders
MaxHeaders == 2
\* number of times setHeaders is applied to one list
MaxCalls == 2
\* longest header list given to removeHeaders
MaxListed == 4
\* number of commands page code issues through TamperApi._do
MaxCmds == 2

(* ------------------------------ strings -------------------------------- *)

Range(s) == {s[i] : i \in 1..Len(s)}

\* "a", "b": the plain URLs requested in the model
UrlA == <<97>>
UrlB == <<98>>
\* header names and values
NameA == <<65>>
NameALower == <<97>>
NameB == <<66>>
NameBLower == <<98>>
Val1 == <<49>>
Val2 == <<50>>
ValQ == <<63>>
\* "Location"
LocationName == <<76, 111, 99, 97, 116, 105, 111, 110>>
\* "$TamperApi:"
TamperDelim == <<36, 84, 97, 109, 112, 101, 114, 65, 112, 105, 58>>
\* the JS value null where a string is expected (no string holds code 0)
JsNull == <<0>>

\* String.prototype.toLowerCase on ASCII and Latin-1 letters
LowerChar(c) ==
  IF (c >= 65 /\ c <= 90) \/ (c >= 192 /\ c <= 222 /\ c # 215) THEN c + 32 ELSE c

toLowerCase(s) == [i \in 1..Len(s) |-> LowerChar(s[i])]

\* the elements of s from index i on (String.prototype.slice(i - 1))
Drop(s, i) == IF i > Len(s) THEN <<>> ELSE SubSeq(s, i, Len(s))

(* -------------------------- header transform --------------------------- *)

Header(n, v) == [name |-> n, value |-> v]

\* setHeaders' outer-loop iteration overwriting the first occurrence only
SetFirstOccurrence(headers, toSetKey, setHeaderTo) ==
  LET hits == {i \in 1..Len(headers) :
                 toLowerCase(toSetKey) = toLowerCase(headers[i].name)}
      first == CHOOSE i \in hits : \A j \in hits : i <= j
  IN  IF hits # {}
      THEN [headers EXCEPT ![first] = Header(headers[first].name, setHeaderTo)]
      ELSE Append(headers, Header(toSetKey, setHeaderTo))

\* one iteration of setHeaders' outer loop, for the entry toSetKey : setHeaderTo
SetOneHeader(headers, toSetKey, setHeaderTo) ==
  LET hit(i) == toLowerCase(toSetKey) = toLowerCase(headers[i].name)
      foundHeaderToSet == \E i \in 1..Len(headers) : hit(i)
  IN  IF foundHeaderToSet
      THEN [i \in 1..Len(headers) |->
              IF hit(i) THEN Header(headers[i].name, setHeaderTo) ELSE headers[i]]
      ELSE Append(headers, Header(toSetKey, setHeaderTo))

RECURSIVE SetHeadersFrom(_, _, _)
SetHeadersFrom(headers, toSet, k) ==
  IF k > Len(toSet) THEN headers
  ELSE SetHeadersFrom(SetOneHeader(headers, toSet[k].name, toSet[k].value), toSet, k + 1)

\* setHeaders(headers, toSet): toSet is the object's entries in for-in order
setHeaders(headers, toSet) == SetHeadersFrom(headers, toSet, 1)

\* Array.prototype.splice(ind, 1)
Splice1(s, ind) == SubSeq(s, 1, ind - 1) \o Drop(s, ind + 1)

RECURSIVE RemoveHeadersSkipping(_, _, _)
\* removeHeaders' loop without headerInd--: the header after a removed one
\* is not looked at
RemoveHeadersSkipping(headers, toRemove, headerInd) ==
  IF headerInd > Len(headers) THEN headers
  ELSE IF toLowerCase(headers[headerInd].name) \notin toRemove
       THEN RemoveHeadersSkipping(headers, toRemove, headerInd + 1)
       ELSE RemoveHeadersSkipping(Splice1(headers, headerInd), toRemove, headerInd + 1)

RECURSIVE RemoveHeadersFrom(_, _, _)
RemoveHeadersFrom(headers, toRemove, headerInd) ==
  IF headerInd > Len(headers) THEN headers
  ELSE IF toLowerCase(headers[headerInd].name) \notin toRemove
       THEN RemoveHeadersFrom(headers, toRemove, headerInd + 1)
       ELSE RemoveHeadersFrom(Splice1(headers, headerInd), toRemove, headerInd)

\* removeHeaders(headers, toRemove): the loop with splice and headerInd--
removeHeaders(headers, toRemove) ==
  RemoveHeadersFrom(headers, {toLowerCase(toRemove[i]) : i \in 1..Len(toRemove)}, 1)

\* getHeader(headers, key): <<value>> of the first match, <<>> for null
getHeader(headers, key) ==
  LET hits == {i \in 1..Len(headers) : toLowerCase(headers[i].name) = toLowerCase(key)}
  IN  IF hits = {} THEN <<>>
      ELSE <<headers[CHOOSE i \in hits : \A j \in hits : i <= j].value>>

(* ------------------------------ TamperSpec ----------------------------- *)

\* an optional property: <<>> is undefined, <<v>> holds v
Has(f) == f # <<>>
Val(f) == f[1]

\* the requestId the Intercept handler writes (null); request ids are 1..MaxReq
NullId == 0

\* the composite key tabId + "::" + frameId + "::" + url.  tabId and frameId
\* are numbers, so the concatenation determines the three parts; the key is
\* kept as the triple it is built from.
makeKey(tabId, frameId, url) == <<tabId, frameId, url>>

Response(h, r) == [headers |-> h, remove |-> r]

TamperSpec(h, r, resp, o) ==
  [headers |-> h, remove |-> r, response |-> resp, opts |-> o,
   requestId |-> <<>>, key |-> <<>>]

\* opts: {} is [once |-> FALSE] (an undefined once is falsy), {once: true} is
\* [once |-> TRUE]
Opts(once) == [once |-> once]

\* defaults(obj, dict) for one property: set only when undefined
Default(f, d) == IF Has(f) THEN f ELSE <<d>>

\* doNormalize: the headers left after the null-valued ones are deleted
NonNullHeaders(headers) == SelectSeq(headers, LAMBDA h : h.value # JsNull)

\* doNormalize: the names pushed to remove, in for-in order
NullNames(headers) ==
  LET nulls == SelectSeq(headers, LAMBDA h : h.value = JsNull)
  IN  [i \in 1..Len(nulls) |-> nulls[i].name]

\* doNormalize without the delete: obj.headers as it is
KeepHeaders(obj) == obj.headers

\* doNormalize without the push: obj.remove as it is
KeepRemove(obj) == obj.remove

\* doNormalize(obj) on the two properties it touches (both defined by now)
doNormalizeHeaders(obj) == <<NonNullHeaders(Val(obj.headers))>>
doNormalizeRemove(obj) == <<Val(obj.remove) \o NullNames(Val(obj.headers))>>

\* TamperStore.prototype._normalizeTamperSpec
normalizeTamperSpec(tamperSpec) ==
  LET d == [tamperSpec EXCEPT
              !.headers = Default(@, <<>>),
              !.remove = Default(@, <<>>),
              !.response = Default(@, Response(<<>>, <<>>)),
              !.opts = Default(@, Opts(FALSE))]
      r == Val(d.response)
      dr == [r EXCEPT !.headers = Default(@, <<>>), !.remove = Default(@, <<>>)]
  IN  [d EXCEPT
         !.headers = doNormalizeHeaders(d),
         !.remove = doNormalizeRemove(d),
         !.response = <<[dr EXCEPT !.headers = doNormalizeHeaders(dr),
                                   !.remove = doNormalizeRemove(dr)]>>]

\* deepClone(obj) = JSON.parse(JSON.stringify(obj)).  Every value cloned here
\* is built of strings, null, booleans, arrays and plain objects, whose JSON
\* round trip yields an equal value (undefined properties are already absent);
\* values carry no identity, so the clone is the value.
deepClone(obj) == obj

(* -------------------------- transport codec ---------------------------- *)

RECURSIVE Concat(_)
\* the concatenation of a sequence of strings
Concat(ss) == IF ss = <<>> THEN <<>> ELSE Head(ss) \o Concat(Tail(ss))

RECURSIVE JoinComma(_)
\* Array.prototype.join(",") over already serialized members
JoinComma(ss) ==
  IF ss = <<>> THEN <<>>
  ELSE IF Len(ss) = 1 THEN Head(ss)
  ELSE Head(ss) \o <<44>> \o JoinComma(Tail(ss))

\* JSON.stringify of a string: quotes, with " and \ escaped
JsonEscapeChar(c) == IF c = 34 \/ c = 92 THEN <<92, c>> ELSE <<c>>
JsonString(str) ==
  <<34>> \o Concat([i \in 1..Len(str) |-> JsonEscapeChar(str[i])]) \o <<34>>

\* JSON.stringify of a header value: a string or null
JsonValue(v) == IF v = JsNull THEN <<110, 117, 108, 108>> ELSE JsonString(v)

\* "key":
JsonKey(str) == JsonString(str) \o <<58>>

JsonObject(members) == <<123>> \o JoinComma(members) \o <<125>>

JsonHeaders(headers) ==
  JsonObject([i \in 1..Len(headers) |->
                JsonKey(headers[i].name) \o JsonValue(headers[i].value)])

JsonNames(names) ==
  <<91>> \o JoinComma([i \in 1..Len(names) |-> JsonString(names[i])]) \o <<93>>

\* the members "headers" and "remove" of a spec or of its response
JsonPhaseMembers(obj) ==
  (IF Has(obj.headers)
   THEN <<JsonKey(<<104, 101, 97, 100, 101, 114, 115>>) \o JsonHeaders(Val(obj.headers))>>
   ELSE <<>>)
  \o
  (IF Has(obj.remove)
   THEN <<JsonKey(<<114, 101, 109, 111, 118, 101>>) \o JsonNames(Val(obj.remove))>>
   ELSE <<>>)

JsonOpts(o) ==
  JsonObject(IF o.once
             THEN <<JsonKey(<<111, 110, 99, 101>>) \o <<116, 114, 117, 101>>>>
             ELSE <<>>)

\* JSON.stringify(tamperSpec) for a spec written by page code: the properties
\* headers, remove, response, opts, those that are defined, in that order
JSONstringify(tamperSpec) ==
  JsonObject(
    JsonPhaseMembers(tamperSpec)
    \o (IF Has(tamperSpec.response)
        THEN <<JsonKey(<<114, 101, 115, 112, 111, 110, 115, 101>>)
               \o JsonObject(JsonPhaseMembers(Val(tamperSpec.response)))>>
        ELSE <<>>)
    \o (IF Has(tamperSpec.opts)
        THEN <<JsonKey(<<111, 112, 116, 115>>) \o JsonOpts(Val(tamperSpec.opts))>>
        ELSE <<>>))

\* encodeURIComponent(str) with each %XX turned into the byte XX: the UTF-8
\* bytes of str (code points below 0x10000)
Utf8Char(c) ==
  IF c < 128 THEN <<c>>
  ELSE IF c < 2048 THEN <<192 + (c \div 64), 128 + (c % 64)>>
  ELSE <<224 + (c \div 4096), 128 + ((c \div 64) % 64), 128 + (c % 64)>>

Utf8Encode(str) == Concat([i \in 1..Len(str) |-> Utf8Char(str[i])])

\* the base64 alphabet of btoa: A-Z a-z 0-9 + /
B64Char(i) ==
  IF i < 26 THEN 65 + i
  ELSE IF i < 52 THEN 97 + (i - 26)
  ELSE IF i < 62 THEN 48 + (i - 52)
  ELSE IF i = 62 THEN 43 ELSE 47

RECURSIVE btoa(_)
\* btoa(bytes): three bytes to four characters, padded with "="
btoa(bytes) ==
  IF Len(bytes) = 0 THEN <<>>
  ELSE IF Len(bytes) = 1
  THEN <<B64Char(bytes[1] \div 4), B64Char((bytes[1] % 4) * 16), 61, 61>>
  ELSE IF Len(bytes) = 2
  THEN <<B64Char(bytes[1] \div 4),
         B64Char((bytes[1] % 4) * 16 + (bytes[2] \div 16)),
         B64Char((bytes[2] % 16) * 4), 61>>
  ELSE <<B64Char(bytes[1] \div 4),
         B64Char((bytes[1] % 4) * 16 + (bytes[2] \div 16)),
         B64Char((bytes[2] % 16) * 4 + (bytes[3] \div 64)),
         B64Char(bytes[3] % 64)>> \o btoa(Drop(bytes, 4))

\* b64EncodeUnicode(str), page.js and background alike
b64EncodeUnicode(str) == btoa(Utf8Encode(str))

\* TamperApi.makeUrl(url, tamperSpec)
makeUrl(url, tamperSpec) ==
  url \o TamperDelim \o b64EncodeUnicode(JSONstringify(tamperSpec))

\* the value of a base64 character, -1 outside the alphabet
B64Index(c) ==
  IF c >= 65 /\ c <= 90 THEN c - 65
  ELSE IF c >= 97 /\ c <= 122 THEN c - 97 + 26
  ELSE IF c >= 48 /\ c <= 57 THEN c - 48 + 52
  ELSE IF c = 43 THEN 62
  ELSE IF c = 47 THEN 63 ELSE 0 - 1

\* atob: one or two trailing "=" are dropped when the length is a multiple of 4
StripPadding(str) ==
  IF Len(str) % 4 = 0 /\ Len(str) > 0 /\ str[Len(str)] = 61
  THEN IF str[Len(str) - 1] = 61 THEN SubSeq(str, 1, Len(str) - 2)
       ELSE SubSeq(str, 1, Len(str) - 1)
  ELSE str

RECURSIVE AtobBytes(_)
\* the bytes of the sextets x, four at a time; left-over bits are discarded
AtobBytes(x) ==
  IF Len(x) < 2 THEN <<>>
  ELSE IF Len(x) = 2 THEN <<x[1] * 4 + (x[2] \div 16)>>
  ELSE IF Len(x) = 3
  THEN <<x[1] * 4 + (x[2] \div 16), (x[2] % 16) * 16 + (x[3] \div 4)>>
  ELSE <<x[1] * 4 + (x[2] \div 16), (x[2] % 16) * 16 + (x[3] \div 4),
         (x[3] % 4) * 64 + x[4]>> \o AtobBytes(Drop(x, 5))

\* atob(str): [ok |-> FALSE] is the InvalidCharacterError
atob(str) ==
  LET stripped == StripPadding(str)
  IN  IF Len(stripped) % 4 = 1 \/ (\E i \in 1..Len(stripped) : B64Index(stripped[i]) < 0)
      THEN [ok |-> FALSE, val |-> <<>>]
      ELSE [ok |-> TRUE,
            val |-> AtobBytes([i \in 1..Len(stripped) |-> B64Index(stripped[i])])]

\* decodeURIComponent of the percent-encoded bytes: the UTF-8 decoding (code
\* points below 0x10000); [ok |-> FALSE] is the URIError on a malformed
\* sequence.  A character starts at every byte that is no continuation byte.
Utf8Decode(bytes) ==
  LET cont(i) == bytes[i] >= 128 /\ bytes[i] < 192
      size(i) == IF bytes[i] < 128 THEN 1
                 ELSE IF bytes[i] >= 194 /\ bytes[i] < 224 THEN 2
                 ELSE IF bytes[i] >= 224 /\ bytes[i] < 240 THEN 3 ELSE 0
      starts == SelectSeq([i \in 1..Len(bytes) |-> i], LAMBDA i : ~cont(i))
      wellFormed(i) ==
        IF cont(i)
        THEN \E j \in {i - 1, i - 2} :
               j >= 1 /\ ~cont(j) /\ j + size(j) > i /\ (\A k \in (j + 1)..i : cont(k))
        ELSE /\ size(i) > 0
             /\ i + size(i) - 1 <= Len(bytes)
             /\ \A k \in (i + 1)..(i + size(i) - 1) : cont(k)
      point(i) ==
        IF size(i) = 1 THEN bytes[i]
        ELSE IF size(i) = 2 THEN (bytes[i] - 192) * 64 + (bytes[i + 1] - 128)
        ELSE (bytes[i] - 224) * 4096 + (bytes[i + 1] - 128) * 64 + (bytes[i + 2] - 128)
  IN  IF \A i \in 1..Len(bytes) : wellFormed(i)
      THEN [ok |-> TRUE, val |-> [n \in 1..Len(starts) |-> point(starts[n])]]
      ELSE [ok |-> FALSE, val |-> <<>>]

\* b64DecodeUnicode(str)
b64DecodeUnicode(str) ==
  LET raw == atob(str)
  IN  IF raw.ok THEN Utf8Decode(raw.val) ELSE [ok |-> FALSE, val |-> <<>>]

(* ------------------------- inputs of the model ------------------------- *)

Tabs == {1}
Frames == {0}
PlainUrls == {UrlA, UrlB}
RequestIds == 1..MaxReq

\* {headers: {A: "1", a: "2"}, remove: ["B"]}
SpecDup ==
  TamperSpec(<<<<Header(NameA, Val1), Header(NameALower, Val2)>>>>, <<<<NameB>>>>, <<>>, <<>>)
\* {headers: {A: null, B: "1"}, remove: ["b"], opts: {once: true}}
SpecNull ==
  TamperSpec(<<<<Header(NameA, JsNull), Header(NameB, Val1)>>>>, <<<<NameBLower>>>>,
             <<>>, <<Opts(TRUE)>>)
\* {response: {headers: {A: "1"}, remove: ["Location"]}, opts: {once: true}}
SpecResp ==
  TamperSpec(<<>>, <<>>,
             <<Response(<<<<Header(NameA, Val1)>>>>, <<<<LocationName>>>>)>>,
             <<Opts(TRUE)>>)
\* {headers: {a: "?"}}
SpecQ == TamperSpec(<<<<Header(NameALower, ValQ)>>>>, <<>>, <<>>, <<>>)
\* {}
SpecEmpty == TamperSpec(<<>>, <<>>, <<>>, <<>>)

\* {response: {headers: {Location: "b"}}, opts: {once: true}}
SpecLoc ==
  TamperSpec(<<>>, <<>>, <<Response(<<<<Header(LocationName, UrlB)>>>>, <<>>)>>,
             <<Opts(TRUE)>>)

\* the specs page code passes to makeUrl
InputSpecs == {SpecDup, SpecNull, SpecResp, SpecQ, SpecLoc}

\* the URLs page code requests: plain, or built by makeUrl
TaggedUrls == {makeUrl(UrlA, s) : s \in InputSpecs}
RequestUrls == PlainUrls \cup TaggedUrls

\* the header lists the host delivers
RequestHeaderLists ==
  {<<>>, <<Header(NameALower, Val2), Header(NameB, Val2), Header(NameA, Val2)>>}
ResponseHeaderLists ==
  {<<Header(NameALower, Val2)>>,
   <<Header(NameALower, Val2), Header(toLowerCase(LocationName), UrlB)>>}
StatusCodes == {200, 301, 302}

\* the JSON text of each spec page code sends
JsonTexts == [s \in InputSpecs |-> JSONstringify(s)]

\* JSON texts of values that are no object: [], 1, null
JsonEmptyArray == <<91, 93>>
JsonNumberOne == <<49>>
JsonNullText == <<110, 117, 108, 108>>

\* tokens that are no transport-encoded spec: empty, a character outside the
\* base64 alphabet ("!"), one byte that is no UTF-8 (0x80, "gA=="), and the
\* encodings of the JSON texts "{", "1", "null" and "[]"
BadTokens ==
  {<<>>, <<33>>, <<103, 65, 61, 61>>,
   b64EncodeUnicode(<<123>>), b64EncodeUnicode(JsonNumberOne),
   b64EncodeUnicode(JsonNullText), b64EncodeUnicode(JsonEmptyArray)}

\* URLs that carry the delimiter and such a token
BadTaggedUrls == {u \o TamperDelim \o token : u \in PlainUrls, token \in BadTokens}

\* the tagged URLs page code can build: plain URL, spec, and makeUrl of both
TaggedInputs ==
  {[u |-> u, s |-> s, url |-> makeUrl(u, s)] : u \in PlainUrls, s \in InputSpecs}

\* JSON.parse(text) for the texts JSON.stringify produces and for the three
\* above: the value whose serialization is text, with its kind (val is the
\* spec when the kind is "object"); [ok |-> FALSE] is the SyntaxError
JSONparse(text) ==
  IF \E s \in InputSpecs : JsonTexts[s] = text
  THEN [ok |-> TRUE, kind |-> "object",
        val |-> CHOOSE s \in InputSpecs : JsonTexts[s] = text]
  ELSE IF text = JsonEmptyArray THEN [ok |-> TRUE, kind |-> "array", val |-> SpecEmpty]
  ELSE IF text = JsonNumberOne THEN [ok |-> TRUE, kind |-> "number", val |-> SpecEmpty]
  ELSE IF text = JsonNullText THEN [ok |-> TRUE, kind |-> "null", val |-> SpecEmpty]
  ELSE [ok |-> FALSE, kind |-> "none", val |-> SpecEmpty]

\* decodeReqModifyOpts(str)
decodeReqModifyOpts(str) ==
  LET text == b64DecodeUnicode(str)
  IN  IF text.ok THEN JSONparse(text.val)
      ELSE [ok |-> FALSE, kind |-> "none", val |-> SpecEmpty]

\* details.url.match(/^(.*)(\$TamperApi:)([^\/]*)$/): <<>> for null, else
\* <<[origUrl |-> match[1], token |-> match[3]]>>.  (.*) is greedy and takes no
\* line terminator; the token takes no "/".
MatchTamperUrl(url) ==
  LET n == Len(TamperDelim)
      ok(p) == /\ SubSeq(url, p, p + n - 1) = TamperDelim
               /\ 47 \notin Range(Drop(url, p + n))
               /\ Range(SubSeq(url, 1, p - 1)) \cap {10, 13, 8232, 8233} = {}
      hits == {p \in 1..(Len(url) - n + 1) : ok(p)}
  IN  IF hits = {} THEN <<>>
      ELSE LET p == CHOOSE q \in hits : \A q2 \in hits : q2 <= q
           IN  <<[origUrl |-> SubSeq(url, 1, p - 1), token |-> Drop(url, p + n)]>>

\* RegexSpec: [source, flags]; flags <<>> when the array has one element
RegexSpec(source, flags) == [source |-> source, flags |-> flags]

\* url.match(makeRegex(regexSpec)) is not null.  The pattern text holds
\* literal characters and "." (any character but a line terminator); the flag
\* "i" ignores case.
RegexMatches(url, regexSpec) ==
  LET src == regexSpec.source
      icase == 105 \in Range(regexSpec.flags)
      fold(c) == IF icase THEN LowerChar(c) ELSE c
      charOk(pc, uc) == IF pc = 46 THEN uc \notin {10, 13, 8232, 8233}
                        ELSE fold(pc) = fold(uc)
  IN  \E start \in 1..(Len(url) - Len(src) + 1) :
        \A j \in 1..Len(src) : charOk(src[j], url[start + j - 1])

\* the associations page code registers with the MetaTamper command
Assoc(regexes, urls, tamper) == [regexes |-> regexes, urls |-> urls, tamper |-> tamper]
\* {urls: ["a"], tamper: SpecDup}
AssocUrlA == Assoc(<<>>, <<<<UrlA>>>>, <<SpecDup>>)
\* {regexes: [["A", "i"], ["b"]], tamper: SpecNull}
AssocAny ==
  Assoc(<<<<RegexSpec(NameA, <<105>>), RegexSpec(UrlB, <<>>)>>>>, <<>>, <<SpecNull>>)
\* {urls: ["a"]}: no tamper
AssocNoTamper == Assoc(<<>>, <<<<UrlA>>>>, <<>>)
\* {tamper: {}}: neither regexes nor urls
AssocNoMatcher == Assoc(<<>>, <<>>, <<SpecEmpty>>)

InputAssocs == {AssocUrlA, AssocAny, AssocNoTamper, AssocNoMatcher}

(* ------------------------------- state --------------------------------- *)

VARIABLES
  data,         \* tamperState._data: the entries [k, v] in insertion order
  patternMods,  \* tamperState._patternMods, newest first
  reqs,         \* the host's requests: where each is in its lifecycle
  argHeaders,   \* setHeaders' parameter headers: the array it changes in place
  argToSet,     \* setHeaders' parameter toSet: the object's entries in for-in order
  argToRemove,  \* removeHeaders' parameter toRemove: an array of names
  calls,        \* how many times the function has been applied to argHeaders
  cmds,         \* the commands of TamperApi._do, by event id: message, stage, promise
  heap,         \* the objects by identity: object i is heap[i]
  roots         \* the references into heap: of _data, of _patternMods, of the caller

storeVars == <<data, patternMods, reqs>>
callVars == <<argHeaders, argToSet, argToRemove, calls>>
heapVars == <<heap, roots>>
vars ==
  <<data, patternMods, reqs, argHeaders, argToSet, argToRemove, calls, cmds, heap, roots>>

(* ----------------------------- TamperStore ----------------------------- *)

KeyIndex(d, key) == {i \in 1..Len(d) : d[i].k = key}

\* TamperStore.prototype.getDirect: <<>> is null
getDirect(d, key) ==
  IF KeyIndex(d, key) = {} THEN <<>>
  ELSE <<deepClone(d[CHOOSE i \in KeyIndex(d, key) : TRUE].v)>>

\* TamperStore.prototype.setDirect: an own property keeps its place in the
\* object's key order when it is assigned again, a new one goes last
setDirect(d, key, value) ==
  LET stored == [normalizeTamperSpec(deepClone(value)) EXCEPT !.key = <<key>>]
  IN  IF KeyIndex(d, key) = {} THEN Append(d, [k |-> key, v |-> stored])
      ELSE [i \in 1..Len(d) |-> IF d[i].k = key THEN [k |-> key, v |-> stored] ELSE d[i]]

\* TamperStore.prototype.removeDirect
removeDirect(d, key) == SelectSeq(d, LAMBDA e : e.k # key)

\* TamperStore.prototype.getByRequestId: the first entry in key order
getByRequestId(d, requestId) ==
  LET hits == {i \in 1..Len(d) : d[i].v.requestId = <<requestId>>}
  IN  IF hits = {} THEN <<>>
      ELSE <<deepClone(d[CHOOSE i \in hits : \A j \in hits : i <= j].v)>>

\* the test of _scanPatternMods' callback for one entry
PatternMatched(patternEntry, url) ==
  IF Has(patternEntry.regexes)
  THEN \E i \in 1..Len(Val(patternEntry.regexes)) :
         RegexMatches(url, Val(patternEntry.regexes)[i])
  ELSE \E i \in 1..Len(Val(patternEntry.urls)) : url = Val(patternEntry.urls)[i]

\* TamperStore.prototype._scanPatternMods: some() stops at the first match
scanPatternMods(pm, url) ==
  LET hits == {i \in 1..Len(pm) : PatternMatched(pm[i], url)}
  IN  IF hits = {} THEN <<>>
      ELSE <<deepClone(Val(pm[CHOOSE i \in hits : \A j \in hits : i <= j].tamper))>>

\* get with the pattern scan tried before the direct map
GetPatternsFirst(d, pm, tabId, frameId, url) ==
  LET tamperSpec == scanPatternMods(pm, url)
  IN  IF tamperSpec # <<>> THEN tamperSpec ELSE getDirect(d, makeKey(tabId, frameId, url))

\* TamperStore.prototype.get
get(d, pm, tabId, frameId, url) ==
  LET tamperSpec == getDirect(d, makeKey(tabId, frameId, url))
  IN  IF tamperSpec # <<>> THEN tamperSpec ELSE scanPatternMods(pm, url)

\* TamperStore.prototype.set
set(d, tabId, frameId, url, modifyOpts) ==
  setDirect(d, makeKey(tabId, frameId, url), modifyOpts)

\* TamperStore.prototype.addPattern: does it throw
addPatternThrows(params) ==
  (~Has(params.regexes) /\ ~Has(params.urls)) \/ ~Has(params.tamper)

\* addPattern with push in place of unshift
AddPatternPush(pm, params) ==
  pm \o <<[deepClone(params) EXCEPT !.tamper = <<normalizeTamperSpec(Val(@))>>]>>

\* TamperStore.prototype.addPattern: the list after unshift
addPattern(pm, params) ==
  <<[deepClone(params) EXCEPT !.tamper = <<normalizeTamperSpec(Val(@))>>]>> \o pm

(* ------------------------------ listeners ------------------------------ *)

\* what a listener does: the store it leaves, what it returns (<<>>: nothing),
\* whether it threw, and the spec it worked with (<<>>: none)
Outcome(d, ret, threw, found) == [data |-> d, ret |-> ret, threw |-> threw, found |-> found]

\* the listener of chrome.webRequest.onBeforeRequest; ret is redirectUrl.
\* It throws when the token does not decode (atob, decodeURIComponent or
\* JSON.parse throws), when it decodes to null (the assignment of requestId
\* throws) and when it decodes to a number (doNormalize throws on the
\* undefined response).  An array takes the properties like an object, and
\* setDirect's clone of it is an array without any (requestId included), to
\* which the defaults are then added: an empty spec.
onBeforeRequestListener(d, tabId, frameId, url) ==
  LET match == MatchTamperUrl(url)
      origUrl == Val(match).origUrl
      decoded == decodeReqModifyOpts(Val(match).token)
      reqModifyOpts == IF decoded.kind = "array" THEN SpecEmpty
                       ELSE [decoded.val EXCEPT !.requestId = <<NullId>>]
  IN  IF match = <<>> THEN Outcome(d, <<>>, FALSE, <<>>)
      ELSE IF ~decoded.ok \/ decoded.kind \in {"null", "number"}
      THEN Outcome(d, <<>>, TRUE, <<>>)
      ELSE Outcome(set(d, tabId, frameId, origUrl, reqModifyOpts), <<origUrl>>, FALSE,
                   <<reqModifyOpts>>)

\* the onBeforeSendHeaders listener without its removeHeaders step
SendWithoutRemove(d, pm, tabId, frameId, url, requestId, requestHeaders) ==
  LET found == get(d, pm, tabId, frameId, url)
      reqModifyOpts == Val(found)
      afterSet == IF Has(reqModifyOpts.headers)
                  THEN setHeaders(requestHeaders, Val(reqModifyOpts.headers))
                  ELSE requestHeaders
      stamped == [reqModifyOpts EXCEPT !.requestId = <<requestId>>]
  IN  IF found = <<>> THEN Outcome(d, <<>>, FALSE, <<>>)
      ELSE Outcome(set(d, tabId, frameId, url, stamped), <<afterSet>>, FALSE, found)

\* the onBeforeSendHeaders listener with removeHeaders applied before setHeaders
SendRemoveThenSet(d, pm, tabId, frameId, url, requestId, requestHeaders) ==
  LET found == get(d, pm, tabId, frameId, url)
      reqModifyOpts == Val(found)
      afterRemove == IF Has(reqModifyOpts.remove)
                     THEN removeHeaders(requestHeaders, Val(reqModifyOpts.remove))
                     ELSE requestHeaders
      afterSet == IF Has(reqModifyOpts.headers)
                  THEN setHeaders(afterRemove, Val(reqModifyOpts.headers))
                  ELSE afterRemove
      stamped == [reqModifyOpts EXCEPT !.requestId = <<requestId>>]
  IN  IF found = <<>> THEN Outcome(d, <<>>, FALSE, <<>>)
      ELSE Outcome(set(d, tabId, frameId, url, stamped), <<afterSet>>, FALSE, found)

\* the listener of chrome.webRequest.onBeforeSendHeaders; ret is requestHeaders
onBeforeSendHeadersListener(d, pm, tabId, frameId, url, requestId, requestHeaders) ==
  LET found == get(d, pm, tabId, frameId, url)
      reqModifyOpts == Val(found)
      afterSet == IF Has(reqModifyOpts.headers)
                  THEN setHeaders(requestHeaders, Val(reqModifyOpts.headers))
                  ELSE requestHeaders
      afterRemove == IF Has(reqModifyOpts.remove)
                     THEN removeHeaders(afterSet, Val(reqModifyOpts.remove))
                     ELSE afterSet
      stamped == [reqModifyOpts EXCEPT !.requestId = <<requestId>>]
  IN  IF found = <<>> THEN Outcome(d, <<>>, FALSE, <<>>)
      ELSE Outcome(set(d, tabId, frameId, url, stamped), <<afterRemove>>, FALSE, found)

\* checkIfRedirect(details): [threw, target]; target <<>> is null
checkIfRedirect(statusCode, responseHeaders) ==
  IF statusCode = 301 \/ statusCode = 302
  THEN LET redirectTarget == getHeader(responseHeaders, LocationName)
       IN  [threw |-> redirectTarget = <<>>, target |-> redirectTarget]
  ELSE [threw |-> FALSE, target |-> <<>>]

\* the response-phase transform of the onHeadersReceived listener: <<>> is the
\* null that responseHeaders keeps when the spec has no response property
ResponseTransform(reqModifyOpts, responseHeaders) ==
  IF Has(reqModifyOpts.response)
  THEN LET response == Val(reqModifyOpts.response)
           afterSet == IF Has(response.headers)
                       THEN setHeaders(responseHeaders, Val(response.headers))
                       ELSE responseHeaders
       IN  <<IF Has(response.remove)
             THEN removeHeaders(afterSet, Val(response.remove))
             ELSE afterSet>>
  ELSE <<>>

\* details.responseHeaders when checkIfRedirect reads it: setHeaders and
\* removeHeaders change the array they are given and return it
HeadersSeenByCheck(transformed, responseHeaders) ==
  IF Has(transformed) THEN Val(transformed) ELSE responseHeaders

\* the onHeadersReceived listener retiring every spec on a terminal response
ReceivedAlwaysRetire(d, tabId, frameId, requestId, statusCode, responseHeaders) ==
  LET found == getByRequestId(d, requestId)
      reqModifyOpts == Val(found)
      transformed == ResponseTransform(reqModifyOpts, responseHeaders)
      check == checkIfRedirect(statusCode, HeadersSeenByCheck(transformed, responseHeaders))
  IN  IF found = <<>> THEN Outcome(d, <<>>, FALSE, <<>>)
      ELSE IF check.threw THEN Outcome(d, <<>>, TRUE, found)
      ELSE IF check.target = <<>>
      THEN Outcome(removeDirect(d, Val(reqModifyOpts.key)), transformed, FALSE, found)
      ELSE Outcome(set(removeDirect(d, Val(reqModifyOpts.key)), tabId, frameId,
                       Val(check.target), reqModifyOpts),
                   transformed, FALSE, found)

\* the listener of chrome.webRequest.onHeadersReceived; ret is responseHeaders
onHeadersReceivedListener(d, tabId, frameId, requestId, statusCode, responseHeaders) ==
  LET found == getByRequestId(d, requestId)
      reqModifyOpts == Val(found)
      transformed == ResponseTransform(reqModifyOpts, responseHeaders)
      check == checkIfRedirect(statusCode, HeadersSeenByCheck(transformed, responseHeaders))
  IN  IF found = <<>> THEN Outcome(d, <<>>, FALSE, <<>>)
      ELSE IF check.threw THEN Outcome(d, <<>>, TRUE, found)
      ELSE IF check.target = <<>>
      THEN Outcome(IF Val(reqModifyOpts.opts).once
                   THEN removeDirect(d, Val(reqModifyOpts.key))
                   ELSE d,
                   transformed, FALSE, found)
      ELSE Outcome(set(removeDirect(d, Val(reqModifyOpts.key)), tabId, frameId,
                       Val(check.target), reqModifyOpts),
                   transformed, FALSE, found)

(* ------------------------------- the host ------------------------------ *)

IdleReq == [phase |-> "idle", tabId |-> 0, frameId |-> 0, url |-> <<>>]
DoneReq == [IdleReq EXCEPT !.phase = "done"]

Request(phase, tabId, frameId, url) ==
  [phase |-> phase, tabId |-> tabId, frameId |-> frameId, url |-> url]

\* no object is referred to
NoRoots == [data |-> <<>>, patternMods |-> <<>>, held |-> {}]

\* the store after construction, no request started
InitStore ==
  /\ data = <<>>
  /\ patternMods = <<>>
  /\ reqs = [r \in RequestIds |-> IdleReq]
  /\ heap = <<>> /\ roots = NoRoots

\* event ids: TamperApi._evtIdAutoInc counts from 0; command c has id c - 1
CmdIds == 1..MaxCmds

\* a command page code has not issued yet
IdleCmd ==
  [command |-> "", options |-> <<>>, stage |-> "none", resp |-> <<>>,
   listening |-> FALSE, settles |-> 0, promise |-> "pending"]

\* no call of setHeaders or removeHeaders, no command
InitIdle ==
  /\ argHeaders = <<>> /\ argToSet = <<>> /\ argToRemove = <<>> /\ calls = 0
  /\ cmds = [c \in CmdIds |-> IdleCmd]

Init ==
  /\ InitStore
  /\ InitIdle

\* the host runs the onBeforeRequest listener for request r: on redirectUrl
\* it starts the request over with that URL, otherwise (nothing returned, or
\* the listener threw) the request goes on to send its headers
BeforeRequest(r, tabId, frameId, url) ==
  LET out == onBeforeRequestListener(data, tabId, frameId, url)
  IN  /\ data' = out.data
      /\ reqs' = [reqs EXCEPT ![r] =
                    IF Has(out.ret) THEN Request("request", tabId, frameId, Val(out.ret))
                    ELSE Request("send", tabId, frameId, url)]
      /\ UNCHANGED <<patternMods, callVars, cmds, heapVars>>

\* a new request; the host numbers its requests in the order it starts them
onBeforeRequestNew(r) ==
  /\ reqs[r].phase = "idle"
  /\ \A q \in RequestIds : q < r => reqs[q].phase # "idle"
  /\ \E tabId \in Tabs, frameId \in Frames, url \in RequestUrls :
       BeforeRequest(r, tabId, frameId, url)

\* a request that was redirected (by the listener or by the server) is
\* announced again, under the same request id, with its new URL
onBeforeRequestAgain(r) ==
  /\ reqs[r].phase = "request"
  /\ BeforeRequest(r, reqs[r].tabId, reqs[r].frameId, reqs[r].url)

\* the host runs the onBeforeSendHeaders listener for request r
onBeforeSendHeaders(r) ==
  /\ reqs[r].phase = "send"
  /\ \E requestHeaders \in RequestHeaderLists :
       data' = onBeforeSendHeadersListener(data, patternMods, reqs[r].tabId,
                 reqs[r].frameId, reqs[r].url, r, requestHeaders).data
  /\ reqs' = [reqs EXCEPT ![r].phase = "received"]
  /\ UNCHANGED <<patternMods, callVars, cmds, heapVars>>

\* the host after the onHeadersReceived listener: with the headers the listener
\* returned, else (nothing returned, or it threw) those received, it follows a
\* 301/302 that carries Location; any other response ends the request
HostAfterResponse(r, out, statusCode, responseHeaders) ==
  LET effective == IF Has(out.ret) THEN Val(out.ret) ELSE responseHeaders
      location == getHeader(effective, LocationName)
  IN  IF (statusCode = 301 \/ statusCode = 302) /\ Has(location)
      THEN [reqs EXCEPT ![r].phase = "request", ![r].url = Val(location)]
      ELSE [reqs EXCEPT ![r] = DoneReq]

\* the host runs the onHeadersReceived listener for request r
onHeadersReceived(r) ==
  /\ reqs[r].phase = "received"
  /\ \E statusCode \in StatusCodes, responseHeaders \in ResponseHeaderLists :
       LET out == onHeadersReceivedListener(data, reqs[r].tabId, reqs[r].frameId, r,
                                            statusCode, responseHeaders)
       IN  /\ data' = out.data
           /\ reqs' = HostAfterResponse(r, out, statusCode, responseHeaders)
  /\ UNCHANGED <<patternMods, callVars, cmds, heapVars>>

\* page code registers each of its associations once
Registered(pm, params) ==
  \E i \in 1..Len(pm) : pm[i].regexes = params.regexes /\ pm[i].urls = params.urls

\* the listener of chrome.runtime.onMessage, command "MetaTamper":
\* addMetaTamper(msg.options); when addPattern throws nothing is registered
onMessageMetaTamper ==
  /\ \E params \in InputAssocs :
       IF addPatternThrows(params) THEN patternMods' = patternMods
       ELSE /\ ~Registered(patternMods, params)
            /\ patternMods' = addPattern(patternMods, params)
  /\ UNCHANGED <<data, reqs, callVars, cmds, heapVars>>

Next ==
  \/ \E r \in RequestIds : onBeforeRequestNew(r)
  \/ \E r \in RequestIds : onBeforeRequestAgain(r)
  \/ \E r \in RequestIds : onBeforeSendHeaders(r)
  \/ \E r \in RequestIds : onHeadersReceived(r)
  \/ onMessageMetaTamper

Spec == Init /\ [][Next]_vars

\* a new request for a URL without the tamper syntax
onBeforeRequestPlain(r) ==
  /\ reqs[r].phase = "idle"
  /\ \A q \in RequestIds : q < r => reqs[q].phase # "idle"
  /\ \E tabId \in Tabs, frameId \in Frames, url \in PlainUrls :
       BeforeRequest(r, tabId, frameId, url)

\* page code registers associations and never builds a tagged URL
NextPatterns ==
  \/ \E r \in RequestIds : onBeforeRequestPlain(r)
  \/ \E r \in RequestIds : onBeforeRequestAgain(r)
  \/ \E r \in RequestIds : onBeforeSendHeaders(r)
  \/ \E r \in RequestIds : onHeadersReceived(r)
  \/ onMessageMetaTamper

SpecPatterns == Init /\ [][NextPatterns]_vars

(* ------------------- setHeaders as a function of its inputs ------------ *)

\* header names and values of the lists and objects given to setHeaders
HeaderNames == {NameA, NameALower, NameB}
HeaderValues == {Val1, Val2}
HeaderEntries == {Header(n, v) : n \in HeaderNames, v \in HeaderValues}

\* the header lists of at most MaxHeaders entries
HeaderLists == UNION {[1..n -> HeaderEntries] : n \in 0..MaxHeaders}

\* the toSet objects of at most MaxHeaders properties: an object has no two
\* properties of the same (exact) name
ToSetObjects ==
  {t \in HeaderLists : \A i, j \in 1..Len(t) : t[i].name = t[j].name => i = j}

InitHeaders ==
  /\ InitStore
  /\ argHeaders \in HeaderLists
  /\ argToSet \in ToSetObjects
  /\ argToRemove = <<>>
  /\ calls = 0
  /\ cmds = [c \in CmdIds |-> IdleCmd]

\* a call setHeaders(headers, toSet): the array is changed in place
setHeadersCall ==
  /\ calls < MaxCalls
  /\ argHeaders' = setHeaders(argHeaders, argToSet)
  /\ calls' = calls + 1
  /\ UNCHANGED <<argToSet, argToRemove, storeVars, cmds, heapVars>>

NextHeaders == setHeadersCall

SpecHeaders == InitHeaders /\ [][NextHeaders]_vars

(* ----------------- removeHeaders as a function of its inputs ----------- *)

\* the headers of the lists given to removeHeaders: a name in two casings and
\* another name, which occurs with two values
ListedEntries ==
  {Header(NameA, Val1), Header(NameALower, Val1), Header(NameB, Val1), Header(NameB, Val2)}

\* the header lists of at most MaxListed entries
ListedHeaders == UNION {[1..n -> ListedEntries] : n \in 0..MaxListed}

\* the toRemove arrays of at most MaxHeaders names (a name may be repeated,
\* and may be the name of no header)
NameLists == UNION {[1..n -> HeaderNames] : n \in 0..MaxHeaders}

InitRemove ==
  /\ InitStore
  /\ argHeaders \in ListedHeaders
  /\ argToRemove \in NameLists
  /\ argToSet = <<>>
  /\ calls = 0
  /\ cmds = [c \in CmdIds |-> IdleCmd]

\* a call removeHeaders(headers, toRemove): the array is changed in place
removeHeadersCall ==
  /\ calls < MaxCalls
  /\ argHeaders' = removeHeaders(argHeaders, argToRemove)
  /\ calls' = calls + 1
  /\ UNCHANGED <<argToSet, argToRemove, storeVars, cmds, heapVars>>

NextRemove == removeHeadersCall

SpecRemove == InitRemove /\ [][NextRemove]_vars

(* ------------------------ the command protocol ------------------------- *)

\* the command strings: those of the API, the reserved one, an unknown one
\* and the empty string (falsy, as a missing command)
Commands == {"print", "sendBackground", "MetaTamper", "RegisterCb", "other", ""}

\* the messages page code sends: MetaTamper carries an association
Messages ==
  {[command |-> c, options |-> <<>>] : c \in Commands \ {"MetaTamper"}}
    \cup {[command |-> "MetaTamper", options |-> <<a>>] : a \in InputAssocs}

\* responses: an object {success, msg} or the string sendBackground answers
RespObject(success) == [kind |-> "object", success |-> success]
RespString == [kind |-> "string", success |-> FALSE]

\* evt.detail.resp.success is truthy (a string has no such property)
RespSuccess(resp) == resp.kind = "object" /\ resp.success

\* the listener of chrome.runtime.onMessage: the patterns it leaves, the
\* argument of its sendResponse call (<<>>: not called), and whether it threw
onMessageListener(pm, msg) ==
  IF msg.command = "" THEN [patternMods |-> pm, resp |-> <<RespObject(FALSE)>>, threw |-> FALSE]
  ELSE IF msg.command = "sendBackground"
  THEN [patternMods |-> pm, resp |-> <<RespString>>, threw |-> FALSE]
  ELSE IF msg.command = "RegisterCb"
  THEN [patternMods |-> pm, resp |-> <<>>, threw |-> TRUE]
  ELSE IF msg.command = "MetaTamper"
  THEN IF addPatternThrows(Val(msg.options))
       THEN [patternMods |-> pm, resp |-> <<>>, threw |-> TRUE]
       ELSE [patternMods |-> addPattern(pm, Val(msg.options)),
             resp |-> <<RespObject(TRUE)>>, threw |-> FALSE]
  ELSE [patternMods |-> pm, resp |-> <<>>, threw |-> FALSE]

\* respListen of command c for a TamperApiResp event carrying its id: it
\* resolves or rejects and removes itself; a listener that was removed sees
\* nothing
respListen(cmd, resp) ==
  IF ~cmd.listening THEN cmd
  ELSE [cmd EXCEPT !.settles = @ + 1,
                   !.promise = IF RespSuccess(resp) THEN "resolved" ELSE "rejected",
                   !.listening = FALSE]

\* TamperApi._do: the promise is created, respListen is registered and the
\* dispatch of TamperApiMsg is left to a timeout; ids are given in order
do(c) ==
  /\ cmds[c].stage = "none"
  /\ \A b \in CmdIds : b < c => cmds[b].stage # "none"
  /\ \E msg \in Messages :
       cmds' = [cmds EXCEPT ![c] = [@ EXCEPT !.command = msg.command,
                                             !.options = msg.options,
                                             !.stage = "issued",
                                             !.listening = TRUE]]
  /\ UNCHANGED <<storeVars, callVars, heapVars>>

\* the timeout fires: TamperApiMsg is dispatched and the content script's
\* listener runs; "print" is answered on the spot, anything else goes to the
\* background with chrome.runtime.sendMessage
TamperApiMsgListener(c) ==
  /\ cmds[c].stage = "issued"
  /\ cmds' = [cmds EXCEPT ![c] =
                IF cmds[c].command = "print"
                THEN [respListen(@, RespObject(TRUE)) EXCEPT !.stage = "done"]
                ELSE [@ EXCEPT !.stage = "sent"]]
  /\ UNCHANGED <<storeVars, callVars, heapVars>>

\* the background's onMessage listener runs for the message of command c;
\* when it returns or throws without having called sendResponse the port
\* is closed without a response
onMessage(c) ==
  /\ cmds[c].stage = "sent"
  /\ LET out == onMessageListener(patternMods,
                                  [command |-> cmds[c].command, options |-> cmds[c].options])
     IN  /\ patternMods' = out.patternMods
         /\ cmds' = [cmds EXCEPT ![c] =
                       [@ EXCEPT !.resp = out.resp,
                                 !.stage = IF Has(out.resp) THEN "responded" ELSE "closed"]]
  /\ UNCHANGED <<data, reqs, callVars, heapVars>>

\* the response reaches the content script: responseHandler dispatches
\* TamperApiResp with the id of c, and respListen of c runs
responseHandler(c) ==
  /\ cmds[c].stage = "responded"
  /\ cmds' = [cmds EXCEPT ![c] = [respListen(@, Val(cmds[c].resp)) EXCEPT !.stage = "done"]]
  /\ UNCHANGED <<storeVars, callVars, heapVars>>

\* the port was closed without a response: the host either never calls
\* responseHandler or calls it with undefined, and then respListen fails on
\* evt.detail.resp.success before it resolves, rejects or removes itself;
\* either way the promise is left as it is
portClosed(c) ==
  /\ cmds[c].stage = "closed"
  /\ cmds' = [cmds EXCEPT ![c].stage = "dropped"]
  /\ UNCHANGED <<storeVars, callVars, heapVars>>

InitMsg ==
  /\ InitStore
  /\ InitIdle

NextMsg ==
  \/ \E c \in CmdIds : do(c)
  \/ \E c \in CmdIds : TamperApiMsgListener(c)
  \/ \E c \in CmdIds : onMessage(c)
  \/ \E c \in CmdIds : responseHandler(c)
  \/ \E c \in CmdIds : portClosed(c)

SpecMsg == InitMsg /\ [][NextMsg]_vars

\* every timeout fires and every message and response is delivered
SpecMsgFair == SpecMsg /\ WF_vars(NextMsg)

(* -------------- lookups over every accepted association ---------------- *)

\* the property regexes or urls with the value null (<<>> is the property
\* left out, <<v>> the property with the array v)
NullProp == <<<<>>, <<>>>>

\* a JavaScript value in a condition: undefined and null are falsy, arrays
\* are truthy
Truthy(f) == Has(f) /\ f # NullProp

\* the flags new RegExp accepts
RegExpFlags == {100, 103, 105, 109, 115, 117, 121}

\* makeRegex(regexSpec) returns: new RegExp throws a SyntaxError for a "("
\* that is not closed and for a flag it does not know
RegexValid(regexSpec) ==
  /\ 40 \notin Range(regexSpec.source)
  /\ Range(regexSpec.flags) \subseteq RegExpFlags

\* the callback of _scanPatternMods for one entry: "match", "none", or
\* "throw" (makeRegex throws at the first regex that is reached, no regex
\* before it having matched; .some is read from urls that is undefined or
\* null)
ScanEntry(patternEntry, url) ==
  IF Truthy(patternEntry.regexes)
  THEN LET regexes == Val(patternEntry.regexes)
           stops == {i \in 1..Len(regexes) :
                       ~RegexValid(regexes[i]) \/ RegexMatches(url, regexes[i])}
           first == CHOOSE i \in stops : \A j \in stops : i <= j
       IN  IF stops = {} THEN "none"
           ELSE IF RegexValid(regexes[first]) THEN "match" ELSE "throw"
  ELSE IF ~Truthy(patternEntry.urls) THEN "throw"
  ELSE IF \E i \in 1..Len(Val(patternEntry.urls)) : url = Val(patternEntry.urls)[i]
       THEN "match" ELSE "none"

\* TamperStore.prototype._scanPatternMods throws: the callback throws for an
\* entry that some() reaches
scanPatternModsThrows(pm, url) ==
  \E i \in 1..Len(pm) :
    /\ ScanEntry(pm[i], url) = "throw"
    /\ \A j \in 1..(i - 1) : ScanEntry(pm[j], url) = "none"

\* TamperStore.prototype.get throws: the scan is made and throws
getThrows(d, pm, tabId, frameId, url) ==
  /\ getDirect(d, makeKey(tabId, frameId, url)) = <<>>
  /\ scanPatternModsThrows(pm, url)

\* the onBeforeSendHeaders listener throws: in get, before anything is stored
onBeforeSendHeadersThrows(d, pm, tabId, frameId, url) ==
  getThrows(d, pm, tabId, frameId, url)

\* {regexes: null, tamper: SpecQ}
AssocNullRegexes == Assoc(NullProp, <<>>, <<SpecQ>>)
\* {regexes: null, urls: ["b"], tamper: SpecQ}
AssocNullRegexesUrls == Assoc(NullProp, <<<<UrlB>>>>, <<SpecQ>>)
\* {regexes: [["("]], tamper: SpecQ}
AssocBadSource == Assoc(<<<<RegexSpec(<<40>>, <<>>)>>>>, <<>>, <<SpecQ>>)
\* {regexes: [["b"], ["a", "x"]], tamper: SpecQ}
AssocBadFlags ==
  Assoc(<<<<RegexSpec(UrlB, <<>>), RegexSpec(UrlA, <<120>>)>>>>, <<>>, <<SpecQ>>)

\* {regexes: [["b"]], urls: ["a"], tamper: SpecQ}
AssocBoth == Assoc(<<<<RegexSpec(UrlB, <<>>)>>>>, <<<<UrlA>>>>, <<SpecQ>>)
\* {regexes: [], urls: ["a"], tamper: SpecQ}
AssocEmptyRegexes == Assoc(<<<<>>>>, <<<<UrlA>>>>, <<SpecQ>>)

\* associations with every kind of regexes and urls value
ScanAssocs ==
  InputAssocs \cup {AssocNullRegexes, AssocNullRegexesUrls, AssocBadSource, AssocBadFlags,
                    AssocBoth, AssocEmptyRegexes}

\* the number of addPattern calls
MaxPatterns == 2

\* addMetaTamper(params): addPattern accepts params
addPatternCall ==
  /\ Len(patternMods) < MaxPatterns
  /\ \E params \in ScanAssocs :
       /\ ~addPatternThrows(params)
       /\ patternMods' = addPattern(patternMods, params)
  /\ UNCHANGED <<data, reqs, callVars, cmds, heapVars>>

\* tamperState.set(tabId, frameId, url, modifyOpts)
setCall ==
  /\ \E tabId \in Tabs, frameId \in Frames, url \in PlainUrls, modifyOpts \in {SpecQ, SpecNull} :
       data' = set(data, tabId, frameId, url, modifyOpts)
  /\ UNCHANGED <<patternMods, reqs, callVars, cmds, heapVars>>

NextScan == addPatternCall \/ setCall

SpecScan == Init /\ [][NextScan]_vars

(* ------------------ normalization of every input spec ------------------ *)

\* header entries of the specs given to set: a value, and null under two
\* other names
NormEntries == {Header(NameA, Val1), Header(NameALower, JsNull), Header(NameB, JsNull)}

\* a headers object: the property left out, or entries with different names
NormHeaders ==
  {<<>>} \cup
  {<<h>> : h \in {t \in UNION {[1..n -> NormEntries] : n \in 0..MaxHeaders} :
                    \A i, j \in 1..Len(t) : t[i].name = t[j].name => i = j}}

\* a remove array: left out, empty, or naming a header
NormRemoves == {<<>>, <<<<>>>>, <<<<NameB>>>>, <<<<NameA>>>>}

\* a response object: left out, empty, or with null-valued headers
NormResponses ==
  {<<>>, <<Response(<<>>, <<>>)>>, <<Response(<<<<Header(NameB, JsNull)>>>>, <<>>)>>,
   <<Response(<<<<Header(NameB, JsNull), Header(NameA, Val1)>>>>, <<<<NameB>>>>)>>}

NormSpecs ==
  {TamperSpec(h, r, resp, <<>>) : h \in NormHeaders, r \in NormRemoves, resp \in NormResponses}

\* the key the specs are stored under
NormKey == makeKey(1, 0, UrlA)

\* tamperState.set(1, 0, "a", modifyOpts) for an input spec
setInputSpec ==
  /\ data = <<>>
  /\ \E modifyOpts \in NormSpecs : data' = setDirect(data, NormKey, modifyOpts)
  /\ UNCHANGED <<patternMods, reqs, callVars, cmds, heapVars>>

\* the spec is read from the store and set again, as the listeners do
reSet ==
  /\ calls < MaxCalls
  /\ getDirect(data, NormKey) # <<>>
  /\ data' = setDirect(data, NormKey, Val(getDirect(data, NormKey)))
  /\ calls' = calls + 1
  /\ UNCHANGED <<patternMods, reqs, argHeaders, argToSet, argToRemove, cmds, heapVars>>

NextNorm == setInputSpec \/ reSet

SpecNorm == Init /\ [][NextNorm]_vars

(* ------------------- the store's objects by identity ------------------- *)

\* An object is a record of its properties.  The properties that hold an
\* object (RefFields) hold a reference: <<>> is the property left out, <<i>>
\* the object heap[i].  items are the entries of a headers object or the
\* elements of an array; requestId and key are a spec's own.
RefFields == <<"headers", "remove", "response", "opts", "tamper", "urls">>

NewObj(kind) ==
  [kind |-> kind, headers |-> <<>>, remove |-> <<>>, response |-> <<>>, opts |-> <<>>,
   tamper |-> <<>>, urls |-> <<>>, items |-> <<>>, requestId |-> <<>>, key |-> <<>>]

\* the objects reached from object id through properties
RECURSIVE Reach(_, _)
Reach(h, id) ==
  {id} \cup UNION {IF h[id][RefFields[k]] = <<>> THEN {}
                   ELSE Reach(h, h[id][RefFields[k]][1]) : k \in 1..Len(RefFields)}

RECURSIVE CloneProperties(_, _, _, _)
RECURSIVE deepCloneAt(_, _)

\* a copy one level deep: the new object dst holds the objects src holds
ShareProperties(h, src, dst, k) == h

\* JSON.parse makes a new object for each object property k.. of src, in
\* the new object dst
CloneProperties(h, src, dst, k) ==
  IF k > Len(RefFields) THEN h
  ELSE IF h[src][RefFields[k]] = <<>> THEN CloneProperties(h, src, dst, k + 1)
  ELSE LET c == deepCloneAt(h, h[src][RefFields[k]][1])
       IN  CloneProperties([c.heap EXCEPT ![dst][RefFields[k]] = <<c.id>>], src, dst, k + 1)

\* deepClone(obj) with the objects it makes: JSON.parse(JSON.stringify(obj))
\* is a new object, and so is every object it holds
deepCloneAt(h, obj) ==
  [heap |-> CloneProperties(Append(h, h[obj]), obj, Len(h) + 1, 1), id |-> Len(h) + 1]

\* defaults(obj, {f: <empty object or array>}) for one property f: the
\* literal is a new object at every call
DefaultAt(h, obj, f, kind) ==
  IF h[obj][f] # <<>> THEN h
  ELSE [Append(h, NewObj(kind)) EXCEPT ![obj][f] = <<Len(h) + 1>>]

\* doNormalize(obj): delete and push change obj.headers and obj.remove
doNormalizeAt(h, obj) ==
  LET headers == h[obj].headers[1]
      remove == h[obj].remove[1]
  IN  [h EXCEPT ![headers].items = NonNullHeaders(@),
                ![remove].items = @ \o NullNames(h[headers].items)]

\* TamperStore.prototype._normalizeTamperSpec: it changes tamperSpec and
\* returns it
normalizeTamperSpecAt(h, tamperSpec) ==
  LET h1 == DefaultAt(h, tamperSpec, "headers", "headers")
      h2 == DefaultAt(h1, tamperSpec, "remove", "names")
      h3 == DefaultAt(h2, tamperSpec, "response", "response")
      h4 == DefaultAt(h3, tamperSpec, "opts", "opts")
      response == h4[tamperSpec].response[1]
      h5 == DefaultAt(h4, response, "headers", "headers")
      h6 == DefaultAt(h5, response, "remove", "names")
  IN  doNormalizeAt(doNormalizeAt(h6, tamperSpec), response)

\* TamperStore.prototype.setDirect: the heap and the entries of _data after
setDirectAt(h, d, key, value) ==
  LET c == deepCloneAt(h, value)
      stored == [normalizeTamperSpecAt(c.heap, c.id) EXCEPT ![c.id].key = <<key>>]
  IN  [heap |-> stored,
       data |-> IF KeyIndex(d, key) = {} THEN Append(d, [k |-> key, v |-> c.id])
                ELSE [i \in 1..Len(d) |->
                        IF d[i].k = key THEN [k |-> key, v |-> c.id] ELSE d[i]]]

\* the result of a lookup: the heap after, and the reference returned
\* (<<>> is null)
Found(h, ref) == [heap |-> h, ref |-> ref]

\* a lookup that returns obj itself
ReturnSame(h, obj) == Found(h, <<obj>>)

\* a lookup that returns a clone of obj
ReturnClone(h, obj) ==
  LET c == deepCloneAt(h, obj)
  IN  Found(c.heap, <<c.id>>)

\* TamperStore.prototype.getDirect
getDirectAt(h, d, key) ==
  IF KeyIndex(d, key) = {} THEN Found(h, <<>>)
  ELSE ReturnClone(h, d[CHOOSE i \in KeyIndex(d, key) : TRUE].v)

\* TamperStore.prototype.getByRequestId
getByRequestIdAt(h, d, requestId) ==
  LET hits == {i \in 1..Len(d) : h[d[i].v].requestId = <<requestId>>}
  IN  IF hits = {} THEN Found(h, <<>>)
      ELSE ReturnClone(h, d[CHOOSE i \in hits : \A j \in hits : i <= j].v)

\* TamperStore.prototype._scanPatternMods, for entries with urls
scanPatternModsAt(h, pm, url) ==
  LET hits == {i \in 1..Len(pm) : url \in Range(h[h[pm[i]].urls[1]].items)}
  IN  IF hits = {} THEN Found(h, <<>>)
      ELSE ReturnClone(h, h[pm[CHOOSE i \in hits : \A j \in hits : i <= j]].tamper[1])

\* TamperStore.prototype.get
getAt(h, r, tabId, frameId, url) ==
  LET tamperSpec == getDirectAt(h, r.data, makeKey(tabId, frameId, url))
  IN  IF tamperSpec.ref # <<>> THEN tamperSpec ELSE scanPatternModsAt(h, r.patternMods, url)

\* TamperStore.prototype.addPattern, for params with urls and tamper
addPatternAt(h, pm, params) ==
  LET c == deepCloneAt(h, params)
  IN  [heap |-> normalizeTamperSpecAt(c.heap, c.heap[c.id].tamper[1]),
       patternMods |-> <<c.id>> \o pm]

\* the number of objects
MaxObjs == 29

\* the request id a caller stamps on a spec
StampedId == 1

\* the caller's objects at the start: the spec {headers: {a: "?", B: null}}
\* and the association {urls: ["a"], tamper: {headers: {A: "1"}}}
CallerHeap ==
  <<[NewObj("spec") EXCEPT !.headers = <<2>>],
    [NewObj("headers") EXCEPT !.items = <<Header(NameALower, ValQ), Header(NameB, JsNull)>>],
    [NewObj("params") EXCEPT !.urls = <<4>>, !.tamper = <<5>>],
    [NewObj("names") EXCEPT !.items = <<UrlA>>],
    [NewObj("spec") EXCEPT !.headers = <<6>>],
    [NewObj("headers") EXCEPT !.items = <<Header(NameA, Val1)>>]>>

InitAlias ==
  /\ data = <<>> /\ patternMods = <<>> /\ reqs = [r \in RequestIds |-> IdleReq]
  /\ InitIdle
  /\ heap = CallerHeap
  /\ roots = [NoRoots EXCEPT !.held = {1, 3}]

\* the objects the caller can reach
CallerObjs == UNION {Reach(heap, id) : id \in roots.held}

\* the caller calls set with a spec it holds
setObj ==
  /\ \E tabId \in Tabs, frameId \in Frames, url \in PlainUrls :
       \E value \in {id \in CallerObjs : heap[id].kind = "spec"} :
         LET out == setDirectAt(heap, roots.data, makeKey(tabId, frameId, url), value)
         IN  /\ Len(out.heap) <= MaxObjs
             /\ heap' = out.heap
             /\ roots' = [roots EXCEPT !.data = out.data]
  /\ UNCHANGED <<storeVars, callVars, cmds>>

\* the caller registers an association it holds
addPatternObj ==
  /\ \E params \in {id \in CallerObjs : heap[id].kind = "params"} :
       LET out == addPatternAt(heap, roots.patternMods, params)
       IN  /\ Len(out.heap) <= MaxObjs
           /\ heap' = out.heap
           /\ roots' = [roots EXCEPT !.patternMods = out.patternMods]
  /\ UNCHANGED <<storeVars, callVars, cmds>>

\* the caller keeps what a lookup returns
Returned(out) ==
  /\ out.ref # <<>>
  /\ Len(out.heap) <= MaxObjs
  /\ heap' = out.heap
  /\ roots' = [roots EXCEPT !.held = @ \cup {out.ref[1]}]

\* the caller calls get or getByRequestId
getObj ==
  /\ \/ \E tabId \in Tabs, frameId \in Frames, url \in PlainUrls :
          Returned(getAt(heap, roots, tabId, frameId, url))
     \/ Returned(getByRequestIdAt(heap, roots.data, StampedId))
  /\ UNCHANGED <<storeVars, callVars, cmds>>

\* TamperStore.prototype.removeDirect
removeDirectObj ==
  /\ \E e \in Range(roots.data) :
       roots' = [roots EXCEPT !.data = removeDirect(@, e.k)]
  /\ UNCHANGED <<heap, storeVars, callVars, cmds>>

\* the caller changes an object: it stamps a request id on a spec (as the
\* onBeforeSendHeaders listener does), gives a headers object other entries,
\* an array other elements
CallerChange(obj) ==
  IF obj.kind = "spec" THEN [obj EXCEPT !.requestId = <<StampedId>>]
  ELSE IF obj.kind = "headers" THEN [obj EXCEPT !.items = <<Header(NameB, Val2)>>]
  ELSE IF obj.kind = "names" THEN [obj EXCEPT !.items = <<UrlB>>]
  ELSE obj

\* the caller changes an object it holds and every object that one holds
callerAssigns ==
  /\ \E id \in roots.held :
       /\ heap' = [i \in 1..Len(heap) |->
                     IF i \in Reach(heap, id) THEN CallerChange(heap[i]) ELSE heap[i]]
       /\ heap' # heap
  /\ UNCHANGED <<roots, storeVars, callVars, cmds>>

NextAlias ==
  \/ setObj
  \/ addPatternObj
  \/ getObj
  \/ removeDirectObj
  \/ callerAssigns

SpecAlias == InitAlias /\ [][NextAlias]_vars

(* ------------------------------- claims -------------------------------- *)

\* the (tab, frame, url) triples a lookup may be made for
Lookups == Tabs \X Frames \X RequestUrls

\* get for the triple k in the store d with the patterns pm
GetAt(d, pm, k) == get(d, pm, k[1], k[2], k[3])

\* the spec sentence's notion of a match: one of the regexes matches the URL
\* or one of the urls equals it
AssocMatches(assoc, url) ==
  \/ Has(assoc.regexes) /\ \E i \in 1..Len(Val(assoc.regexes)) :
                             RegexMatches(url, Val(assoc.regexes)[i])
  \/ Has(assoc.urls) /\ \E i \in 1..Len(Val(assoc.urls)) : url = Val(assoc.urls)[i]

\* C1: whenever the direct map holds an entry under the composite key of
\* (tab, frame, url), get(tab, frame, url) returns that entry's spec, whatever
\* patterns are registered.
C1_DirectOverPattern ==
  \A k \in Lookups : \A i \in 1..Len(data) :
    data[i].k = makeKey(k[1], k[2], k[3]) => GetAt(data, patternMods, k) = <<data[i].v>>

\* C1 witness: a direct entry whose URL also matches a registered pattern
\* that carries another spec.
C1_Witness ==
  \E i \in 1..Len(data), j \in 1..Len(patternMods) :
    /\ AssocMatches(patternMods[j], data[i].k[3])
    /\ Val(patternMods[j].tamper).headers # data[i].v.headers
    /\ GetAt(data, patternMods, data[i].k) = <<data[i].v>>

Responses == StatusCodes \X ResponseHeaderLists

IsRedirectStatus(statusCode) == statusCode \in {301, 302}

\* the onHeadersReceived listener run now for request r with the response resp
ReceivedNow(r, resp) ==
  onHeadersReceivedListener(data, reqs[r].tabId, reqs[r].frameId, r, resp[1], resp[2])

\* the onBeforeSendHeaders listener run now for request r
SendNow(r, requestHeaders) ==
  onBeforeSendHeadersListener(data, patternMods, reqs[r].tabId, reqs[r].frameId,
                              reqs[r].url, r, requestHeaders)

\* the same modification: headers, remove, response, opts and request id
SameSpec(x, y) ==
  /\ x.headers = y.headers /\ x.remove = y.remove /\ x.response = y.response
  /\ x.opts = y.opts /\ x.requestId = y.requestId

\* C3: for a spec stored under (tab, frame, a) and bound to request id R, after
\* HeadersReceived for R with status 301 or 302 and a Location header b (b
\* other than a), get(tab, frame, a) returns what the patterns alone give
\* (no match when no pattern matches a) and get(tab, frame, b) returns the
\* original spec.
C3_RedirectRekeying ==
  \A r \in RequestIds : reqs[r].phase = "received" =>
    \A resp \in Responses :
      LET found == getByRequestId(data, r)
          old == Val(Val(found).key)
          b == getHeader(resp[2], LocationName)
          out == ReceivedNow(r, resp)
          atB == GetAt(out.data, patternMods, <<reqs[r].tabId, reqs[r].frameId, Val(b)>>)
      IN  (IsRedirectStatus(resp[1]) /\ Has(found) /\ Has(b) /\ Val(b) # old[3]) =>
            /\ GetAt(out.data, patternMods, old) = scanPatternMods(patternMods, old[3])
            /\ Has(atB) /\ SameSpec(Val(atB), Val(found))

\* C4: a spec with the once option bound to request id R is not discarded when
\* R sends its headers, a redirect response (301/302 with Location b) re-keys
\* it under b without discarding it, and after a terminal response
\* getByRequestId(R) returns not found and no direct entry is bound to R.
C4_OneShotRetirement ==
  \A r \in RequestIds :
    /\ reqs[r].phase = "send" =>
         \A requestHeaders \in RequestHeaderLists :
           LET out == SendNow(r, requestHeaders)
           IN  (Has(out.found) /\ Val(Val(out.found).opts).once) =>
                 Has(getByRequestId(out.data, r))
    /\ reqs[r].phase = "received" =>
         \A resp \in Responses :
           LET found == getByRequestId(data, r)
               b == getHeader(resp[2], LocationName)
               out == ReceivedNow(r, resp)
               atB == getDirect(out.data, makeKey(reqs[r].tabId, reqs[r].frameId, Val(b)))
           IN  (Has(found) /\ Val(Val(found).opts).once) =>
                 IF IsRedirectStatus(resp[1])
                 THEN Has(b) => Has(atB) /\ SameSpec(Val(atB), Val(found))
                 ELSE /\ getByRequestId(out.data, r) = <<>>
                      /\ \A i \in 1..Len(out.data) : out.data[i].v.requestId # <<r>>

\* the request-phase transform of a spec: setHeaders, then removeHeaders
RequestTransform(reqModifyOpts, requestHeaders) ==
  LET afterSet == IF Has(reqModifyOpts.headers)
                  THEN setHeaders(requestHeaders, Val(reqModifyOpts.headers))
                  ELSE requestHeaders
  IN  IF Has(reqModifyOpts.remove) THEN removeHeaders(afterSet, Val(reqModifyOpts.remove))
      ELSE afterSet

\* C5: for a spec without the once option bound to request id R, a terminal
\* (non-redirect) HeadersReceived for R leaves the direct map unchanged:
\* getByRequestId(R) and get(tab, frame, url) still return the spec, and a
\* later HeadersSend for the same (tab, frame, url) resolves it and returns
\* the request headers transformed with it.
C5_PersistenceWithoutOnce ==
  \A r \in RequestIds : reqs[r].phase = "received" =>
    \A resp \in Responses :
      LET found == getByRequestId(data, r)
          spec == Val(found)
          key == Val(spec.key)
          out == ReceivedNow(r, resp)
      IN  (Has(found) /\ ~Val(spec.opts).once /\ ~IsRedirectStatus(resp[1])) =>
            /\ out.data = data
            /\ getByRequestId(out.data, r) = found
            /\ key = makeKey(reqs[r].tabId, reqs[r].frameId, reqs[r].url)
            /\ GetAt(out.data, patternMods, key) = found
            /\ \A q \in RequestIds, requestHeaders \in RequestHeaderLists :
                 LET again == onBeforeSendHeadersListener(out.data, patternMods, key[1],
                                key[2], key[3], q, requestHeaders)
                 IN  /\ again.found = found
                     /\ again.ret = <<RequestTransform(spec, requestHeaders)>>

\* C5 witness: a request has ended with a terminal response and the spec
\* without once that is bound to it is still in the direct map, where get
\* returns it.
C5_Witness ==
  \E r \in RequestIds : \E i \in 1..Len(data) :
    /\ reqs[r] = DoneReq
    /\ data[i].v.requestId = <<r>>
    /\ ~Val(data[i].v.opts).once
    /\ Has(data[i].v.headers)
    /\ GetAt(data, patternMods, data[i].k) = <<data[i].v>>
    /\ getByRequestId(data, r) = <<data[i].v>>

\* the entry setDirect stores for the spec s sent in a tagged URL
InterceptedSpec(s, key) ==
  [normalizeTamperSpec(s) EXCEPT !.requestId = <<NullId>>, !.key = <<key>>]

\* C6: for every plain URL u and every spec s, the onBeforeRequest listener
\* given makeUrl(u, s) recognises the tag, stores the normalized s under
\* (tab, frame, u) with requestId null and returns a redirect to u; given a
\* URL without a tag it changes nothing and returns nothing.
C6_InterceptRoundTrip ==
  \A tabId \in Tabs, frameId \in Frames, u \in PlainUrls :
    /\ \A s \in InputSpecs :
         LET out == onBeforeRequestListener(data, tabId, frameId, makeUrl(u, s))
             key == makeKey(tabId, frameId, u)
         IN  /\ ~out.threw
             /\ out.ret = <<u>>
             /\ getDirect(out.data, key) = <<InterceptedSpec(s, key)>>
    /\ onBeforeRequestListener(data, tabId, frameId, u) = Outcome(data, <<>>, FALSE, <<>>)

\* the composite key of request r
KeyOf(r) == makeKey(reqs[r].tabId, reqs[r].frameId, reqs[r].url)

\* C7: when HeadersSend for request R resolves a spec, get(tab, frame, url)
\* and getByRequestId(R) both return it, stamped with R, and they go on
\* returning it across every step that is not R's own HeadersReceived: the
\* Intercept, HeadersSend and HeadersReceived events of other requests (also
\* to the same tab, frame and URL) and the registration of patterns.
C7_BothLookupsUntilRetirement ==
  [][\A r \in RequestIds :
       /\ (reqs[r].phase = "send" /\ reqs'[r].phase = "received"
             /\ Has(GetAt(data, patternMods, KeyOf(r)))) =>
            /\ Has(getByRequestId(data', r))
            /\ GetAt(data', patternMods', KeyOf(r)) = getByRequestId(data', r)
            /\ SameSpec(Val(getByRequestId(data', r)),
                        [Val(GetAt(data, patternMods, KeyOf(r))) EXCEPT !.requestId = <<r>>])
       /\ (reqs[r].phase = "received" /\ reqs'[r] = reqs[r]
             /\ Has(getByRequestId(data, r))
             /\ GetAt(data, patternMods, KeyOf(r)) = getByRequestId(data, r)) =>
            /\ getByRequestId(data', r) = getByRequestId(data, r)
            /\ GetAt(data', patternMods', KeyOf(r)) = getByRequestId(data, r)]_vars

\* the names of a list of names, lower-cased
LowerNames(names) == {toLowerCase(names[i]) : i \in 1..Len(names)}

\* the value of the last entry of toSet whose name is name, case-insensitively
LastValue(toSet, name) ==
  LET same == {i \in 1..Len(toSet) : toLowerCase(toSet[i].name) = toLowerCase(name)}
  IN  toSet[CHOOSE i \in same : \A j \in same : j <= i].value

\* the spec of the most recently registered association that matches url
\* (<<>>: none matches)
NewestMatch(url) ==
  LET hits == {i \in 1..Len(patternMods) : AssocMatches(patternMods[i], url)}
  IN  IF hits = {} THEN <<>>
      ELSE patternMods[CHOOSE i \in hits : \A j \in hits : i <= j].tamper

\* the part of C8 both readings share: an untagged Intercept is a no-op, a
\* HeadersSend for a URL without a direct entry that a registered association
\* matches returns removeHeaders(setHeaders(requestHeaders, spec.headers),
\* spec.remove) for the newest matching association's spec, and a HeadersSend
\* that resolves no spec returns nothing and leaves the store unchanged
PatternTampering(r, requestHeaders) ==
  LET out == SendNow(r, requestHeaders)
      direct == getDirect(data, KeyOf(r))
      newest == NewestMatch(reqs[r].url)
      spec == Val(newest)
  IN  /\ onBeforeRequestListener(data, reqs[r].tabId, reqs[r].frameId, reqs[r].url)
           = Outcome(data, <<>>, FALSE, <<>>)
      /\ (direct = <<>> /\ Has(newest)) =>
           out.ret = <<removeHeaders(setHeaders(requestHeaders, Val(spec.headers)),
                                     Val(spec.remove))>>
      /\ (direct = <<>> /\ newest = <<>>) => (out.ret = <<>> /\ out.data = data)

NoneNamed(headers, names) ==
  \A i \in 1..Len(headers) : toLowerCase(headers[i].name) \notin names

\* the names one phase of a spec asks to remove, lower-cased: those of its
\* remove list and those it gives a null value in headers
RemovedNames(phase) ==
  LowerNames(Val(Default(phase.remove, <<>>)))
    \cup LowerNames(NullNames(Val(Default(phase.headers, <<>>))))

\* the spec whose response phase is the request phase of s
AsResponse(s) == TamperSpec(<<>>, <<>>, <<Response(s.headers, s.remove)>>, s.opts)

\* for every input spec sent in a tagged URL that the onBeforeRequest listener
\* recognises, the onBeforeSendHeaders listener that follows returns a list
\* with no header of a removed or null-valued name (the Intercept overwrites
\* the key's entry and get prefers it, so the store before does not matter)
RequestPhaseRemovalWins ==
  \A tagged \in TaggedInputs, tabId \in Tabs, frameId \in Frames :
    LET intercepted == onBeforeRequestListener(<<>>, tabId, frameId, tagged.url)
    IN  intercepted.ret = <<tagged.u>> =>
          \A q \in RequestIds, requestHeaders \in RequestHeaderLists :
            LET sent == onBeforeSendHeadersListener(intercepted.data, <<>>, tabId,
                          frameId, tagged.u, q, requestHeaders)
            IN  /\ Has(sent.ret)
                /\ NoneNamed(Val(sent.ret), RemovedNames(tagged.s))

\* the response-phase transform of every input spec stored as a response
\* phase leaves no header of a removed or null-valued name
ResponsePhaseRemovalWins ==
  \A s \in InputSpecs, headers \in RequestHeaderLists \cup ResponseHeaderLists :
    LET transformed == ResponseTransform(normalizeTamperSpec(AsResponse(s)), headers)
    IN  /\ Has(transformed)
        /\ NoneNamed(Val(transformed), RemovedNames(s))

\* C9: removal wins over setting within one phase.  The header list the
\* onBeforeSendHeaders listener returns has no header named (case-
\* insensitively) in the resolved spec's remove list, and the list the
\* onHeadersReceived listener returns none named in its response.remove (a
\* stored spec is normalized: its null-valued names are in its remove list);
\* and for a spec as page code wrote it, sent in a tagged URL or stored as a
\* response phase, the transformed list has no header named in its remove
\* list or given a null value in its headers, also when headers sets the same
\* name to a non-null value.
C9_RemovalWins ==
  /\ \A r \in RequestIds : reqs[r].phase = "send" =>
       \A requestHeaders \in RequestHeaderLists :
         LET out == SendNow(r, requestHeaders)
         IN  Has(out.ret) => NoneNamed(Val(out.ret), LowerNames(Val(Val(out.found).remove)))
  /\ \A r \in RequestIds : reqs[r].phase = "received" =>
       \A resp \in Responses :
         LET out == ReceivedNow(r, resp)
         IN  Has(out.ret) =>
               NoneNamed(Val(out.ret),
                         LowerNames(Val(Val(Val(out.found).response).remove)))
  /\ RequestPhaseRemovalWins
  /\ ResponsePhaseRemovalWins

\* C9 witness: a request about to send its headers resolves a spec that sets
\* a name to a non-null value and also removes it, the request carries a
\* header of that name, and the returned list has none.
C9_Witness ==
  \E r \in RequestIds : \E requestHeaders \in RequestHeaderLists :
    LET out == SendNow(r, requestHeaders)
        spec == Val(out.found)
        toSet == Val(spec.headers)
    IN  /\ reqs[r].phase = "send"
        /\ Has(out.found)
        /\ Has(out.ret)
        /\ \E i \in 1..Len(toSet) : \E h \in 1..Len(requestHeaders) :
             /\ toSet[i].value # JsNull
             /\ toLowerCase(toSet[i].name) \in LowerNames(Val(spec.remove))
             /\ toLowerCase(requestHeaders[h].name) = toLowerCase(toSet[i].name)
             /\ NoneNamed(Val(out.ret), {toLowerCase(toSet[i].name)})

\* does a property of toSet name the header name n (case-insensitively)
NamedIn(toSet, n) == \E k \in 1..Len(toSet) : toLowerCase(toSet[k].name) = toLowerCase(n)

\* C10 (as stated): in a call of setHeaders, for each name in toSet: if
\* headers of that name exist (case-insensitively) every occurrence gets that
\* entry's value, keeping its name casing and position, and no entry of
\* that name is added; if none exists exactly one entry with the toSet casing
\* and value is appended; headers not named in toSet are unchanged and keep
\* their order.
C10_SetHeadersAsStated ==
  [][LET h == argHeaders
         t == argToSet
         out == argHeaders'
         match(i, k) == toLowerCase(h[i].name) = toLowerCase(t[k].name)
         added(k) == {j \in (Len(h) + 1)..Len(out) :
                        toLowerCase(out[j].name) = toLowerCase(t[k].name)}
     IN  /\ Len(out) >= Len(h)
         /\ \A k \in 1..Len(t) :
              IF \E i \in 1..Len(h) : match(i, k)
              THEN /\ \A i \in 1..Len(h) :
                        match(i, k) => out[i] = Header(h[i].name, t[k].value)
                   /\ added(k) = {}
              ELSE /\ Cardinality(added(k)) = 1
                   /\ \A j \in added(k) : out[j] = Header(t[k].name, t[k].value)
         /\ \A i \in 1..Len(h) : ~NamedIn(t, h[i].name) => out[i] = h[i]]_callVars

\* the toSet entries that make setHeaders append: no header of the list has
\* the name and no earlier toSet entry has it (case-insensitively)
FreshKeys(h, t) ==
  SelectSeq([k \in 1..Len(t) |-> k],
            LAMBDA k : /\ ~NamedIn(h, t[k].name)
                       /\ \A m \in 1..(k - 1) :
                            toLowerCase(t[m].name) # toLowerCase(t[k].name))

\* C10 (corrected): in a call of setHeaders every header of the list keeps its
\* position and name casing; a header whose name is (case-insensitively) a
\* name of toSet gets the value of the last toSet entry of that name, the
\* others keep their value; and for each case-insensitive class of toSet
\* names that no header of the list carries exactly one entry is appended, in
\* toSet order, with the casing of the class's first entry and the value of
\* its last.
C10_SetHeaders ==
  [][LET h == argHeaders
         t == argToSet
         out == argHeaders'
         fresh == FreshKeys(h, t)
     IN  /\ Len(out) = Len(h) + Len(fresh)
         /\ \A i \in 1..Len(h) :
              out[i] = Header(h[i].name,
                              IF NamedIn(t, h[i].name) THEN LastValue(t, h[i].name)
                              ELSE h[i].value)
         /\ \A m \in 1..Len(fresh) :
              out[Len(h) + m] =
                Header(t[fresh[m]].name, LastValue(t, t[fresh[m]].name))]_callVars

\* C10 witness: after one call with a toSet that has one name in two casings
\* with different values, the list has two headers of that name, in different
\* casings, both with the value of the later toSet entry.
C10_Witness ==
  /\ calls = 1
  /\ \E i, j \in 1..Len(argToSet) : \E p, q \in 1..Len(argHeaders) :
       /\ i < j /\ p < q
       /\ toLowerCase(argToSet[i].name) = toLowerCase(argToSet[j].name)
       /\ argToSet[i].value # argToSet[j].value
       /\ argHeaders[p].name # argHeaders[q].name
       /\ toLowerCase(argHeaders[p].name) = toLowerCase(argToSet[i].name)
       /\ toLowerCase(argHeaders[q].name) = toLowerCase(argToSet[i].name)
       /\ argHeaders[p].value = argToSet[j].value
       /\ argHeaders[q].value = argToSet[j].value

\* the header of index i is named, case-insensitively, by an entry of names
Removed(h, names, i) ==
  \E n \in 1..Len(names) : toLowerCase(names[n]) = toLowerCase(h[i].name)

\* the indices of the headers of h that no entry of names names, ascending
KeptIndices(h, names) ==
  SelectSeq([i \in 1..Len(h) |-> i], LAMBDA i : ~Removed(h, names, i))

\* C11: a call removeHeaders(headers, names) leaves exactly the headers that no
\* entry of names names (case-insensitively), in their original order: every
\* occurrence of a named header is gone, also repeated and adjacent ones, and
\* a name that no header carries removes nothing.
C11_RemoveHeaders ==
  [][LET h == argHeaders
         kept == KeptIndices(h, argToRemove)
         out == argHeaders'
     IN  /\ Len(out) = Len(kept)
         /\ \A m \in 1..Len(kept) : out[m] = h[kept[m]]
         /\ (\A i \in 1..Len(h) : ~Removed(h, argToRemove, i)) => out = h]_callVars

\* C11 witness: a list of four headers in which two adjacent ones carry, in
\* different casings, a name of toRemove, the two others do not and differ;
\* removeHeaders returns the two others in their order.
C11_Witness ==
  LET h == argHeaders
      out == removeHeaders(argHeaders, argToRemove)
  IN  /\ calls = 0
      /\ Len(h) = 4
      /\ \E i \in 1..3 :
           /\ Removed(h, argToRemove, i) /\ Removed(h, argToRemove, i + 1)
           /\ h[i].name # h[i + 1].name
           /\ \A j \in (1..4) \ {i, i + 1} : ~Removed(h, argToRemove, j)
           /\ LET others == SelectSeq(<<1, 2, 3, 4>>, LAMBDA j : j # i /\ j # i + 1)
              IN  /\ h[others[1]] # h[others[2]]
                  /\ out = <<h[others[1]], h[others[2]]>>

\* C12: when the background handles a MetaTamper command whose association
\* has neither regexes nor urls, or has no tamper, addPattern fails, the
\* patterns list and the direct map are unchanged, and the command's
\* response reports the failure (success: false) to the caller.
C12_InvalidPatternReported ==
  [][\A c \in CmdIds :
       (cmds[c].stage = "sent" /\ cmds'[c].stage # "sent"
          /\ cmds[c].command = "MetaTamper"
          /\ LET params == Val(cmds[c].options)
             IN  (~Has(params.regexes) /\ ~Has(params.urls)) \/ ~Has(params.tamper)) =>
         /\ patternMods' = patternMods
         /\ data' = data
         /\ cmds'[c].resp = <<RespObject(FALSE)>>]_vars

\* C13: every command issued through TamperApi._do has its promise resolved
\* or rejected exactly once: once issued it eventually settles, and it never
\* settles twice, whatever the order in which commands and responses are
\* handled.
C13_SettlesExactlyOnce ==
  /\ \A c \in CmdIds : [](cmds[c].stage # "none" => <>(cmds[c].settles = 1))
  /\ [](\A c \in CmdIds : cmds[c].settles <= 1)

\* C14: when HeadersReceived for a request with a bound spec delivers status
\* 301 or 302 and no Location header, the listener fails (malformed
\* redirect), the store is left as it was (the spec stays under its key, a
\* once spec is not retired) and no response headers are returned.
C14_MalformedRedirect ==
  \A r \in RequestIds : reqs[r].phase = "received" =>
    \A resp \in Responses :
      LET found == getByRequestId(data, r)
          out == ReceivedNow(r, resp)
      IN  (Has(found) /\ IsRedirectStatus(resp[1])
             /\ getHeader(resp[2], LocationName) = <<>>) =>
            /\ out.threw
            /\ out.data = data
            /\ out.ret = <<>>

\* C15: when the onBeforeRequest listener is given a URL that carries the
\* $TamperApi: delimiter and a token that is no transport-encoded spec (an
\* empty token, a token that does not decode, a token that decodes to a JSON
\* value that is no object), the store is unchanged and no redirect is
\* returned.
C15_BadTokenPassthrough ==
  \A tabId \in Tabs, frameId \in Frames, url \in BadTaggedUrls :
    LET out == onBeforeRequestListener(data, tabId, frameId, url)
    IN  /\ MatchTamperUrl(url) # <<>>
        /\ out.data = data
        /\ out.ret = <<>>

\* C16: in every store state reached through accepted addPattern and set
\* calls, get returns a spec or not-found for every tab, frame and URL: the
\* lookup never throws, and so the onBeforeSendHeaders listener never aborts
\* on it.  (getByRequestId reads the direct map only and cannot throw.)
C16_LookupsNeverFail ==
  \A tabId \in Tabs, frameId \in Frames, url \in PlainUrls :
    /\ ~getThrows(data, patternMods, tabId, frameId, url)
    /\ ~onBeforeSendHeadersThrows(data, patternMods, tabId, frameId, url)

\* what an object holds, by value: its own properties and those of every
\* object it holds
RECURSIVE ViewOf(_, _)
ViewOf(h, id) ==
  [kind |-> h[id].kind, items |-> h[id].items, requestId |-> h[id].requestId,
   key |-> h[id].key,
   props |-> [k \in 1..Len(RefFields) |->
                IF h[id][RefFields[k]] = <<>> THEN <<>>
                ELSE <<ViewOf(h, h[id][RefFields[k]][1])>>]]

\* what the store holds, by value: what every get and getByRequestId is
\* computed from
StoreView(h, r) ==
  [data |-> [i \in 1..Len(r.data) |-> [k |-> r.data[i].k, v |-> ViewOf(h, r.data[i].v)]],
   patternMods |-> [i \in 1..Len(r.patternMods) |-> ViewOf(h, r.patternMods[i])]]

\* the objects the store holds, directly or through properties
StoreObjs(h, r) ==
  UNION ({Reach(h, r.data[i].v) : i \in 1..Len(r.data)}
         \cup {Reach(h, r.patternMods[i]) : i \in 1..Len(r.patternMods)})

\* no object is reached from the store and from the caller, from two
\* entries of the store, or from two objects that lookups returned
NoSharing(h, r) ==
  /\ \A id \in r.held : Reach(h, id) \cap StoreObjs(h, r) = {}
  /\ \A i, j \in 1..Len(r.data) :
       i # j => Reach(h, r.data[i].v) \cap Reach(h, r.data[j].v) = {}
  /\ \A i, j \in 1..Len(r.patternMods) :
       i # j => Reach(h, r.patternMods[i]) \cap Reach(h, r.patternMods[j]) = {}
  /\ \A i \in 1..Len(r.data), j \in 1..Len(r.patternMods) :
       Reach(h, r.data[i].v) \cap Reach(h, r.patternMods[j]) = {}
  /\ \A x, y \in r.held : x # y => Reach(h, x) \cap Reach(h, y) = {}

\* C17: deep-copy isolation.  A step that is no set, addPattern or
\* removeDirect call (the references of _data and _patternMods stay) leaves
\* what the store holds as it was, whatever the caller changes in the
\* objects it passed in or got back; and the store, the caller's objects and
\* the objects lookups returned share no object.
C17_DeepCopyIsolation ==
  [][/\ (roots'.data = roots.data /\ roots'.patternMods = roots.patternMods)
          => StoreView(heap', roots') = StoreView(heap, roots)
     /\ NoSharing(heap', roots')]_heapVars

\* C17 witness: the caller has changed the spec it passed to set and a spec a
\* lookup returned (both carry the stamped request id and other header
\* entries), and the store holds the spec as it was stored.
C17_Witness ==
  \E i \in 1..Len(roots.data), got \in roots.held :
    LET stored == heap[roots.data[i].v]
    IN  /\ got > Len(CallerHeap)
        /\ heap[got].key = <<roots.data[i].k>>
        /\ heap[got].requestId = <<StampedId>>
        /\ heap[heap[got].headers[1]].items = <<Header(NameB, Val2)>>
        /\ heap[1].requestId = <<StampedId>>
        /\ heap[2].items = <<Header(NameB, Val2)>>
        /\ stored.requestId = <<>>
        /\ heap[stored.headers[1]].items = <<Header(NameALower, ValQ)>>
        /\ heap[stored.remove[1]].items = <<NameB>>

\* normalize(normalize(s)) = normalize(s) for every input spec
NormalizeTwice ==
  \A s \in NormSpecs :
    normalizeTamperSpec(normalizeTamperSpec(s)) = normalizeTamperSpec(s)

\* C18: normalization is idempotent, and a spec that is read from the store
\* and set again is stored as before (headers, remove, response.headers and
\* response.remove included), however many times.
C18_NormalizeIdempotent ==
  [][/\ NormalizeTwice
     /\ calls' = calls + 1 =>
          /\ data' = data
          /\ \A i \in 1..Len(data') :
               normalizeTamperSpec(data'[i].v) = data'[i].v]_<<data, calls>>

\* C18 witness: a spec whose null-valued header names were moved to remove
\* (request and response) has been set again MaxCalls times.
C18_Witness ==
  /\ calls = MaxCalls
  /\ \E i \in 1..Len(data) :
       /\ Val(data[i].v.headers) = <<Header(NameA, Val1)>>
       /\ Val(data[i].v.remove) = <<NameB, NameALower>>
       /\ Val(Val(data[i].v.response).remove) = <<NameB, NameB>>

\* headers, remove, response.headers and response.remove are all present
HasAllFour(v) ==
  /\ Has(v.headers) /\ Has(v.remove) /\ Has(v.response)
  /\ Has(Val(v.response).headers) /\ Has(Val(v.response).remove)

NoNullValue(headers) == \A i \in 1..Len(headers) : headers[i].value # JsNull

IsNormalized(v) ==
  /\ HasAllFour(v)
  /\ NoNullValue(Val(v.headers))
  /\ NoNullValue(Val(Val(v.response).headers))

\* every name with a null value in given.headers is in kept.remove and names
\* no entry of kept.headers
NullMoved(given, kept) ==
  Has(given.headers) =>
    \A i \in 1..Len(Val(given.headers)) :
      Val(given.headers)[i].value = JsNull =>
        /\ Val(given.headers)[i].name \in Range(Val(kept.remove))
        /\ \A j \in 1..Len(Val(kept.headers)) :
             Val(kept.headers)[j].name # Val(given.headers)[i].name

\* the specs given to the store: in tagged URLs and in associations
GivenSpecs ==
  InputSpecs \cup {Val(a.tamper) : a \in {x \in InputAssocs : Has(x.tamper)}}

\* what normalization makes of every spec given, and of every spec of
\* NormSpecs (null values at both levels)
GivenNormalized ==
  \A s \in GivenSpecs \cup NormSpecs :
    LET kept == normalizeTamperSpec(s)
    IN  /\ IsNormalized(kept)
        /\ NullMoved(s, kept)
        /\ Has(s.response) => NullMoved(Val(s.response), Val(kept.response))

\* v is what the store keeps of a spec given to it
StoredFromGiven(v) ==
  \E s \in GivenSpecs :
    LET kept == normalizeTamperSpec(s)
    IN  /\ v.headers = kept.headers /\ v.remove = kept.remove
        /\ v.response = kept.response /\ v.opts = kept.opts

\* C19: in every reachable state every spec of the direct map and every
\* association's tamper is normalized: headers, remove, response.headers and
\* response.remove are present, no header entry of either level has the null
\* value, and the names given a null value are in the remove list of their
\* level and name no header entry.
C19_StoredNormalized ==
  /\ GivenNormalized
  /\ \A i \in 1..Len(data) : IsNormalized(data[i].v) /\ StoredFromGiven(data[i].v)
  /\ \A i \in 1..Len(patternMods) :
       /\ IsNormalized(Val(patternMods[i].tamper))
       /\ StoredFromGiven(Val(patternMods[i].tamper))

\* C19 witness: the direct map and the patterns both hold the spec that was
\* given with {A: null}: A is in remove and not in headers.
C19_Witness ==
  /\ \E i \in 1..Len(data) :
       /\ Val(data[i].v.remove) = <<NameBLower, NameA>>
       /\ Val(data[i].v.headers) = <<Header(NameB, Val1)>>
       /\ data[i].v.requestId = <<NullId>>
  /\ \E i \in 1..Len(patternMods) :
       /\ Val(Val(patternMods[i].tamper).remove) = <<NameBLower, NameA>>
       /\ Val(Val(patternMods[i].tamper).headers) = <<Header(NameB, Val1)>>

\* C20: for every spec found by request id, whatever its response.headers
\* and response.remove, a HeadersReceived with status 301 or 302 whose
\* delivered headers carry Location L removes the spec from its key and
\* stores it under (tab, frame, L), and the listener throws exactly when the
\* delivered headers carry no Location.
C20_RedirectReadsDelivered ==
  \A r \in RequestIds : reqs[r].phase = "received" =>
    \A resp \in Responses :
      LET found == getByRequestId(data, r)
          out == ReceivedNow(r, resp)
          delivered == getHeader(resp[2], LocationName)
          old == Val(Val(found).key)
          target == makeKey(reqs[r].tabId, reqs[r].frameId, Val(delivered))
          moved == getDirect(out.data, target)
      IN  (Has(found) /\ IsRedirectStatus(resp[1])) =>
            /\ out.threw <=> delivered = <<>>
            /\ Has(delivered) =>
                 /\ Has(moved) /\ SameSpec(Val(moved), Val(found))
                 /\ target # old => getDirect(out.data, old) = <<>>

\* one of the entry's regexes matches url
SomeRegexMatches(patternEntry, url) ==
  /\ Truthy(patternEntry.regexes)
  /\ \E i \in 1..Len(Val(patternEntry.regexes)) :
       /\ RegexValid(Val(patternEntry.regexes)[i])
       /\ RegexMatches(url, Val(patternEntry.regexes)[i])

\* one of the entry's urls is url
SomeUrlEquals(patternEntry, url) ==
  /\ Truthy(patternEntry.urls)
  /\ \E i \in 1..Len(Val(patternEntry.urls)) : url = Val(patternEntry.urls)[i]

\* C21: a registered association matches URL u if and only if one of its
\* regexes matches u or one of its urls equals u, also when it carries both
\* regexes and urls, or an empty regexes list and urls.
C21_RegexesOrUrls ==
  \A i \in 1..Len(patternMods), url \in PlainUrls :
    ScanEntry(patternMods[i], url) = "match"
      <=> (SomeRegexMatches(patternMods[i], url) \/ SomeUrlEquals(patternMods[i], url))

\* the tamper of the newest association that matches url, <<>> when none does
NewestTamper(h, pm, url) ==
  LET hits == {i \in 1..Len(pm) : url \in Range(h[h[pm[i]].urls[1]].items)}
  IN  IF hits = {} THEN <<>>
      ELSE <<h[pm[CHOOSE i \in hits : \A j \in hits : i <= j]].tamper[1]>>

\* C22: the handlers work on the store through set, get, getByRequestId and
\* removeDirect and by assigning to the spec a lookup returned (the request
\* id they stamp).  No such step adds, removes, reorders or changes an
\* association: the patterns list changes only by one entry put in front,
\* every association holds what it held, and a get that finds no direct
\* entry (none yet, or the entry was retired) returns what the newest
\* matching association's tamper holds, request id included.
C22_PatternsUntouched ==
  [][LET old == roots.patternMods
         new == roots'.patternMods
     IN  /\ new = old \/ (Len(new) = Len(old) + 1 /\ Tail(new) = old)
         /\ \A i \in 1..Len(old) : ViewOf(heap', old[i]) = ViewOf(heap, old[i])
         /\ \A url \in PlainUrls :
              LET tamper == NewestTamper(heap', new, url)
                  out == getAt(heap', roots', 1, 0, url)
              IN  (KeyIndex(roots'.data, makeKey(1, 0, url)) = {} /\ Has(tamper)) =>
                    /\ Has(out.ref)
                    /\ ViewOf(out.heap, Val(out.ref)) = ViewOf(heap', Val(tamper))]_heapVars

\* C22 witness: a spec that get took from an association was stamped with a
\* request id and set, and the association's tamper has no request id and the
\* headers it was registered with.
C22_Witness ==
  /\ \E got \in roots.held :
       /\ got > Len(CallerHeap)
       /\ heap[got].kind = "spec" /\ heap[got].key = <<>>
       /\ heap[got].requestId = <<StampedId>>
  /\ \E i \in 1..Len(roots.data) : heap[roots.data[i].v].requestId = <<StampedId>>
  /\ \E i \in 1..Len(roots.patternMods) :
       LET tamper == heap[heap[roots.patternMods[i]].tamper[1]]
       IN  /\ tamper.requestId = <<>>
           /\ heap[tamper.headers[1]].items = <<Header(NameA, Val1)>>

\* C23: last-registered-wins across requests.  No (tab, frame, url) is ever
\* given a spec by a tagged Intercept (SpecPatterns has none); every
\* HeadersSend for a URL that registered associations match works with the
\* spec of the most recently registered one and returns the headers that
\* spec gives, whatever earlier requests to the URL did.
C23_NewestPatternAcrossRequests ==
  \A r \in RequestIds : reqs[r].phase = "send" =>
    \A requestHeaders \in RequestHeaderLists :
      LET newest == NewestMatch(reqs[r].url)
          spec == Val(newest)
          out == SendNow(r, requestHeaders)
      IN  Has(newest) =>
            /\ Has(out.found)
            /\ Val(out.found).headers = spec.headers
            /\ Val(out.found).remove = spec.remove
            /\ Val(out.found).response = spec.response
            /\ Val(out.found).opts = spec.opts
            /\ out.ret = <<removeHeaders(setHeaders(requestHeaders, Val(spec.headers)),
                                         Val(spec.remove))>>

\* C24: the host gives every request its own id and keeps it across the
\* request's redirects.  In every reachable state at most one direct entry
\* carries a given request id (null aside), and every entry's key field is
\* the key it is stored under: getByRequestId(R) does not depend on the
\* order of the entries, and removeDirect(spec.key) for the spec it found
\* removes that entry and no other.
C24_OneEntryPerRequestId ==
  /\ \A i, j \in 1..Len(data) :
       (data[i].v.requestId = data[j].v.requestId
          /\ data[i].v.requestId \notin {<<>>, <<NullId>>}) => i = j
  /\ \A i \in 1..Len(data) : data[i].v.key = <<data[i].k>>
  /\ \A r \in RequestIds :
       LET found == getByRequestId(data, r)
       IN  Has(found) =>
             /\ \A i \in 1..Len(data) :
                  data[i].v.requestId = <<r>> => data[i].v = Val(found)
             /\ \A i \in 1..Len(data) :
                  (\E j \in 1..Len(removeDirect(data, Val(Val(found).key))) :
                     removeDirect(data, Val(Val(found).key))[j] = data[i])
                    <=> data[i].v # Val(found)

====
